---- MODULE Spec2Model ----
(***************************************************************************)
(* Channel data acquisition subsystem of the portfolio backend:            *)
(*   - UnifiedTelegramScraper (backend/unified_scraper.py): structured     *)
(*     (MTProto) strategy first, markup (HTML) strategy as fallback;       *)
(*   - TelegramScraper / TelegramHTMLParser scrape_all_channels loops;     *)
(*   - DataCache and get_channel_data (backend/api_server.py);             *)
(*   - the ordering step of TelegramHTMLParser.parse_channel_posts;        *)
(*   - TelegramHTMLParser.scrape_channel, its count parsers and its text   *)
(*     extraction, and the text extraction of the serverless handler;      *)
(*   - the two tasks of TelegramScraper.scrape_channel;                    *)
(*   - the latest-post endpoint and the relative-time formatters;          *)
(*   - the daily scheduled job, the channel loop on the clock, the read    *)
(*     path under file rewrites, the channel description, and the post     *)
(*     selection and the responses of the serverless handler.              *)
(* Each subsystem has its own specification over the shared variables;     *)
(* the variables of the other subsystems stay at their initial values.     *)
(***************************************************************************)
EXTENDS Integers, Sequences, FiniteSets, TLC

VARIABLES
    \* ---- process environment and module import flags
    env_api_id,          \* os.getenv('TELEGRAM_API_ID')
    env_api_hash,        \* os.getenv('TELEGRAM_API_HASH')
    MTPROTO_AVAILABLE,   \* import of telegram_scraper succeeded
    HTML_PARSER_AVAILABLE, \* import of telegram_html_parser succeeded
    \* ---- UnifiedTelegramScraper object
    mtproto_enabled,
    html_enabled,
    \* ---- durable files
    dataFile,            \* data/telegram/channels_data.json
    htmlFile,            \* data/telegram/channels_data_html.json
    \* ---- one run of scrape_all
    pc,                  \* position of the run
    idx,                 \* index of the next channel in the running loop
    mtResults,           \* `results` of TelegramScraper.scrape_all_channels
    htmlResults,         \* `results` of TelegramHTMLParser.scrape_all_channels
    mtRet,               \* value returned by scrape_with_mtproto
    htmlRet,             \* value returned by scrape_with_html
    results,             \* `results` of scrape_all
    returned,            \* value returned by scrape_all
    outcome,             \* "none" | "Success" | "Failed" | "Raised"
    \* ---- observation of the run (history)
    fileAtStart,         \* dataFile when the run started
    fileWrites,          \* writes of dataFile during the run
    mtCalls,             \* channels TelegramScraper.scrape_channel was called on
    htmlCalls,           \* channels TelegramHTMLParser.scrape_channel was called on
    clientCreated,       \* a TelegramClient was created in the run
    htmlEntered,         \* scrape_with_html was called in the run
    strategyRaised,      \* an exception was raised inside the structured strategy
    \* ---- DataCache (api_server.py) and the objects it refers to
    _cache,              \* DataCache._cache: key -> reference
    _timestamps,         \* DataCache._timestamps: key -> time of the set
    heap,                \* the dict objects of the process: reference -> content
    now,                 \* datetime.now(), in seconds
    ticks,               \* number of clock advances so far
    \* ---- observation of the cache (history)
    lastOp,              \* the last cache operation and what it returned
    lastSet,             \* per key, the last DataCache.set: reference, time, content
    \* ---- one call of TelegramHTMLParser.parse_channel_posts
    posts,               \* `posts`: the parsed posts in encounter order
    limited_posts,       \* the list the call returns
    parse_pc,            \* "parsed" before the ordering step, "returned" after
    \* ---- one call of TelegramHTMLParser.scrape_channel
    config_posts_limit,  \* self.config.posts_limit of the parser's config object
    response,            \* what session.get(url) yields for the channel page
    channel_html,        \* `html` of scrape_channel: what fetch_channel_html returned
    scraped,             \* the dict scrape_channel returns
    scrape_pc,           \* "start" | "fetched" | "returned"
    \* ---- one count of a record: a call of a count parser of the markup
    \* ---- strategy, or a count field the structured client builds
    counter_text,        \* the text handed to the count parser
    provider,            \* the provider's entity and message, None for the parsers
    views,               \* 'views' of the post record
    subscribers_count,   \* 'subscribers_count' of the channel_info record
    count_pc,            \* "start", then which field was built and by whom
    \* ---- the text extraction of one message container
    text_elem,           \* the first text container of the widget, None without
    post_text,           \* `text`: the text extracted
    text_pc,             \* "start" | "parsed" (html parser) | "handled" (handler)
    \* ---- one call of a relative-time formatter
    date_str,            \* the 'date' field handed to the formatter
    clock,               \* datetime.now(), in seconds
    formatted_date,      \* what the formatter returned
    date_pc,             \* "start", then which formatter was called
    \* ---- one request of the latest-post endpoint
    request_username,    \* {username} of the request path
    live_data,           \* what handler.parse_telegram_html yields for the request
    latest_payload,      \* the answer of the endpoint
    latest_pc,           \* "start", then which endpoint answered
    \* ---- one call of TelegramScraper.scrape_channel
    gather_pc,           \* "gathering" until gather returns, then "returned"
    info_pc,             \* the await get_channel_info is at, then "done"
    posts_pc,            \* the await get_channel_posts is at, then "done"
    info_entity,         \* `entity` of get_channel_info
    info_task,           \* outcome of the get_channel_info task, None before
    posts_task,          \* outcome of the get_channel_posts task, None before
    info_failed,         \* a call of get_channel_info failed (history)
    posts_failed,        \* a call of get_channel_posts failed (history)
    completed,           \* the tasks in the order they completed (history)
    gathered,            \* the dict scrape_channel returns
    \* ---- the durable file over time (history)
    file_log,            \* the states of channels_data.json so far, each with the time it began
    \* ---- the channel loop of one strategy on the clock of the event loop
    loop_pc,             \* "fetch" | "scraping" | "sleeping" | "done"
    loop_idx,            \* index of the channel the loop is at
    loop_clock,          \* loop.time(), in seconds
    fetch_started,       \* per channel, the time its scrape_channel call started (history)
    scrape_ended,        \* per channel, the time and the success of its scrape (history)
    \* ---- the channel description of one page, by both markup parsers
    desc_elem,           \* the children of the description element, None without one
    description,         \* 'description' of the channel record
    desc_pc,             \* "start" | "parsed" (html parser) | "handled" (handler)
    \* ---- one call of handler.parse_telegram_html on a fetched page
    page_blocks,         \* the message containers of the page, in page order
    handler_latest,      \* `latest` of parse_telegram_html, None when `posts` is empty
    blocks_pc,           \* "fetched" | "parsed"
    \* ---- the responses of one GET of the serverless handler
    get_pc,              \* "live" | "static" | "mock" | "done" | "raised"
    sent                 \* the send_json calls of the request: source and how far each got (history)

scrapeVars == <<env_api_id, env_api_hash, MTPROTO_AVAILABLE, HTML_PARSER_AVAILABLE,
                mtproto_enabled, html_enabled, dataFile, htmlFile, pc, idx,
                mtResults, htmlResults, mtRet, htmlRet, results, returned, outcome,
                fileAtStart, fileWrites, mtCalls, htmlCalls, clientCreated,
                htmlEntered, strategyRaised>>

cacheVars == <<_cache, _timestamps, heap, now, ticks, lastOp, lastSet>>

postVars == <<posts, limited_posts, parse_pc>>

pageVars == <<config_posts_limit, response, channel_html, scraped, scrape_pc>>

\* the variables of the subsystems that have one specification each
countVars == <<counter_text, provider, views, subscribers_count, count_pc>>

textVars == <<text_elem, post_text, text_pc>>

dateVars == <<date_str, clock, formatted_date, date_pc>>

latestVars == <<request_username, live_data, latest_payload, latest_pc>>

gatherVars ==
    <<gather_pc, info_pc, posts_pc, info_entity, info_task, posts_task,
      info_failed, posts_failed, completed, gathered>>

toolVars == <<pageVars, countVars, textVars, dateVars, latestVars, gatherVars>>

staleVars == <<file_log>>

delayVars == <<loop_pc, loop_idx, loop_clock, fetch_started, scrape_ended>>

descVars == <<desc_elem, description, desc_pc>>

blockVars == <<page_blocks, handler_latest, blocks_pc>>

sendVars == <<get_pc, sent>>

\* the variables of the later subsystems
moreVars == <<staleVars, delayVars, descVars, blockVars, sendVars>>

vars == <<scrapeVars, cacheVars, postVars, toolVars, moreVars>>

outsideScrape == <<cacheVars, postVars, toolVars, moreVars>>

----------------------------------------------------------------------------
(* Bounds *)
MaxPosts == 1      \* posts a strategy may return for one channel: 0..MaxPosts
MaxObjs == 1       \* dict objects allocated in one behaviour of the cache
MaxTicks == 2      \* clock advances in one behaviour of the cache
MaxLen == 3        \* posts parsed from one page
MaxWidgets == 3    \* message widgets on the page scrape_channel fetches
MaxChars == 4      \* characters of a count text, the word of its type aside
MaxNest == 3       \* text containers nested in one message widget

----------------------------------------------------------------------------
(* Python values *)

\* Python None
None == [py_none |-> TRUE]

\* the empty dict {}
EmptyDict == [k \in {} |-> None]

\* `not x` for an Optional[Dict]: None and {} are falsy
Falsy(x) == x = None \/ DOMAIN x = {}

\* Config.channels and HTMLParserConfig.channels (the same list in both)
channels == <<"vanyashuvalov", "vanya_knopochkin">>

\* a file that does not exist
Missing == [exists |-> FALSE]

\* a file holding the JSON document m
File(m) == [exists |-> TRUE, doc |-> m]

\* sum(1 for data in results.values() if data.get('success'))
success_count(m) == Cardinality({k \in DOMAIN m : m[k].success})

----------------------------------------------------------------------------
(* UnifiedTelegramScraper and the two strategies *)

\* UnifiedTelegramScraper._check_mtproto_config; an unset variable is ""
check_mtproto_config(available, api_id, api_hash) ==
    IF ~available THEN FALSE
    ELSE IF api_id = "" \/ api_hash = "" \/ api_id = "your_api_id_here" THEN FALSE
    ELSE TRUE

\* channel_info built by TelegramScraper.get_channel_info
MtInfo == [title |-> "title"]

\* channel_info built by TelegramHTMLParser.parse_channel_info
HtmlInfo == [title |-> "title", source |-> "html_parser"]

\* the dict TelegramScraper.scrape_channel returns; posts is the number of posts
MtEntry(info, n) == [channel_info |-> info, posts |-> n, success |-> info # None]

\* the dict TelegramHTMLParser.scrape_channel returns after a successful fetch
HtmlEntry(info, n) ==
    [channel_info |-> info, posts |-> n, success |-> info # None, parser |-> "html"]

\* the dict TelegramHTMLParser.scrape_channel returns when the fetch failed
HtmlFetchFailed ==
    [channel_info |-> None, posts |-> 0, success |-> FALSE,
     error |-> "Failed to fetch channel HTML"]

\* What the loop body of TelegramScraper.scrape_all_channels can store. Its
\* except branch stores nothing in any run: scrape_channel gathers its two
\* fetches with return_exceptions=True and both fetches catch Exception.
MtOutcomes == {MtEntry(i, n) : i \in {None, MtInfo}, n \in 0..MaxPosts}

\* What the loop body of TelegramHTMLParser.scrape_all_channels can store. Its
\* except branch stores nothing in any run either: fetch_channel_html,
\* parse_channel_info and parse_channel_posts all catch Exception.
HtmlOutcomes ==
    {HtmlEntry(i, n) : i \in {None, HtmlInfo}, n \in 0..MaxPosts} \cup {HtmlFetchFailed}

\* the tail of a strategy that wants every channel to have succeeded
strategy_return_all(m) ==
    IF DOMAIN m # {} /\ success_count(m) = Cardinality(DOMAIN m) THEN m ELSE None

\* tail of scrape_with_mtproto / scrape_with_html: the map if a channel succeeded
strategy_return(m) == IF success_count(m) > 0 THEN m ELSE None

\* a fallback test that sends every map with a failed channel to the markup parser
needs_fallback_any_failed(r) ==
    Falsy(r) \/ \E k \in DOMAIN r : ~r[k].success

\* the fallback decision with the test inverted: `if results:`
needs_fallback_inverted(r) == ~Falsy(r)

\* `if not results:` of scrape_all, the fallback decision
needs_fallback(r) == Falsy(r)

\* the dict scrape_all returns on complete failure
ErrorRecord == [error |-> "All scraping methods failed", success |-> FALSE]

\* results['_metadata'] of scrape_all
Metadata(mt, html) ==
    [scraper_type |-> "unified", mtproto_available |-> mt, html_available |-> html]

\* a dump that keeps the successful entries only
persisted_document_successful(r, mt, html) ==
    [k \in {c \in DOMAIN r : r[c].success} |-> r[k]]

\* the document scrape_all dumps to channels_data.json
persisted_document(r, mt, html) == r

\* the dict scrape_all returns on success
returned_document(r, mt, html) == ("_metadata" :> Metadata(mt, html)) @@ r

\* the channel entries of a document: every key but _metadata
ChannelEntries(m) == [k \in DOMAIN m \ {"_metadata"} |-> m[k]]

EnvIds == {"", "your_api_id_here", "12345"}
EnvHashes == {"", "your_api_hash_here", "0123abcd"}

\* ---- initial values of the other subsystems

\* a reference that is Python None
NoneRef == 0

\* the usernames the read path is asked for
Usernames == {"vanyashuvalov", "vanya_knopochkin"}

\* cache_key = f"channel_{channel_username}" of get_channel_data
cache_key(u) ==
    IF u = "vanyashuvalov" THEN "channel_vanyashuvalov" ELSE "channel_vanya_knopochkin"

Keys == {cache_key(u) : u \in Usernames}

NoOp == [op |-> "none", key |-> "", result |-> NoneRef]
NeverSet == [ref |-> NoneRef, at |-> 0, content |-> None]

CacheInitial ==
    /\ _cache = EmptyDict
    /\ _timestamps = EmptyDict
    /\ heap = <<>>
    /\ now = 0
    /\ ticks = 0
    /\ lastOp = NoOp
    /\ lastSet = [k \in Keys |-> NeverSet]

PostsInitial ==
    /\ posts = <<>>
    /\ limited_posts = <<>>
    /\ parse_pc = "idle"

PageInitial ==
    /\ config_posts_limit = 50
    /\ response = None
    /\ channel_html = None
    /\ scraped = None
    /\ scrape_pc = "idle"

CountInitial ==
    /\ counter_text = <<>>
    /\ provider = None
    /\ views = None
    /\ subscribers_count = None
    /\ count_pc = "idle"

TextInitial ==
    /\ text_elem = None
    /\ post_text = <<>>
    /\ text_pc = "idle"

DateInitial ==
    /\ date_str = None
    /\ clock = 0
    /\ formatted_date = <<>>
    /\ date_pc = "idle"

LatestInitial ==
    /\ request_username = ""
    /\ live_data = None
    /\ latest_payload = None
    /\ latest_pc = "idle"

GatherInitial ==
    /\ gather_pc = "idle"
    /\ info_pc = "idle"
    /\ posts_pc = "idle"
    /\ info_entity = None
    /\ info_task = None
    /\ posts_task = None
    /\ info_failed = FALSE
    /\ posts_failed = FALSE
    /\ completed = <<>>
    /\ gathered = None

StaleInitial ==
    /\ file_log = <<>>

DelayInitial ==
    /\ loop_pc = "idle"
    /\ loop_idx = 1
    /\ loop_clock = 0
    /\ fetch_started = <<>>
    /\ scrape_ended = <<>>

DescInitial ==
    /\ desc_elem = None
    /\ description = <<>>
    /\ desc_pc = "idle"

BlocksInitial ==
    /\ page_blocks = <<>>
    /\ handler_latest = None
    /\ blocks_pc = "idle"

SendInitial ==
    /\ get_pc = "idle"
    /\ sent = <<>>

\* every subsystem but g is at rest
ToolsInitialExcept(g) ==
    /\ IF g = "text" THEN TRUE ELSE TextInitial
    /\ IF g = "page" THEN TRUE ELSE PageInitial
    /\ IF g = "count" THEN TRUE ELSE CountInitial
    /\ IF g = "date" THEN TRUE ELSE DateInitial
    /\ IF g = "latest" THEN TRUE ELSE LatestInitial
    /\ IF g = "gather" THEN TRUE ELSE GatherInitial
    /\ IF g = "stale" THEN TRUE ELSE StaleInitial
    /\ IF g = "delay" THEN TRUE ELSE DelayInitial
    /\ IF g = "desc" THEN TRUE ELSE DescInitial
    /\ IF g = "blocks" THEN TRUE ELSE BlocksInitial
    /\ IF g = "send" THEN TRUE ELSE SendInitial

\* the documents an earlier run can have left in channels_data.json
PriorDocuments ==
    {("vanyashuvalov" :> MtEntry(MtInfo, 1)) @@ ("vanya_knopochkin" :> MtEntry(None, 0)),
     ("vanyashuvalov" :> HtmlEntry(HtmlInfo, 1)) @@ ("vanya_knopochkin" :> HtmlFetchFailed)}

\* channels_data.json before the run: absent, or left by an earlier run
PriorFiles == {Missing} \cup {File(d) : d \in PriorDocuments}

InitScrape ==
    /\ env_api_id \in EnvIds
    /\ env_api_hash \in EnvHashes
    /\ MTPROTO_AVAILABLE \in BOOLEAN
    /\ HTML_PARSER_AVAILABLE \in BOOLEAN
    /\ mtproto_enabled = check_mtproto_config(MTPROTO_AVAILABLE, env_api_id, env_api_hash)
    /\ html_enabled = HTML_PARSER_AVAILABLE
    /\ dataFile \in PriorFiles
    /\ htmlFile = Missing
    /\ pc = "scrape_with_mtproto"
    /\ idx = 1
    /\ mtResults = EmptyDict
    /\ htmlResults = EmptyDict
    /\ mtRet = None
    /\ htmlRet = None
    /\ results = None
    /\ returned = None
    /\ outcome = "none"
    /\ fileAtStart = dataFile
    /\ fileWrites = 0
    /\ mtCalls = <<>>
    /\ htmlCalls = <<>>
    /\ clientCreated = FALSE
    /\ htmlEntered = FALSE
    /\ strategyRaised = FALSE
    /\ CacheInitial
    /\ PostsInitial
    /\ ToolsInitialExcept("none")

envVars == <<env_api_id, env_api_hash, MTPROTO_AVAILABLE, HTML_PARSER_AVAILABLE>>
objVars == <<mtproto_enabled, html_enabled>>

\* scrape_with_mtproto, `if not self.mtproto_enabled: return None`
MtSkip ==
    /\ pc = "scrape_with_mtproto"
    /\ ~mtproto_enabled
    /\ mtRet' = None
    /\ pc' = "fallback"
    /\ UNCHANGED outsideScrape
    /\ UNCHANGED <<envVars, objVars, dataFile, htmlFile, idx, mtResults, htmlResults,
                   htmlRet, results, returned, outcome, fileAtStart, fileWrites,
                   mtCalls, htmlCalls, clientCreated, htmlEntered, strategyRaised>>

\* scrape_with_mtproto without its except clause: the AttributeError leaves
\* scrape_all
MtInitFail_uncaught ==
    /\ pc = "scrape_with_mtproto"
    /\ mtproto_enabled
    /\ clientCreated' = TRUE
    /\ strategyRaised' = TRUE
    /\ outcome' = "Raised"
    /\ pc' = "done"
    /\ UNCHANGED outsideScrape
    /\ UNCHANGED <<envVars, objVars, dataFile, htmlFile, idx, mtResults, htmlResults,
                   mtRet, htmlRet, results, returned, fileAtStart, fileWrites,
                   mtCalls, htmlCalls, htmlEntered>>

\* scrape_with_mtproto when initialize_client fails: scrape_all_channels returns
\* {'error': ...}, whose value is a str, so data.get raises AttributeError inside
\* the try block and the except clause returns None
MtInitFail ==
    /\ pc = "scrape_with_mtproto"
    /\ mtproto_enabled
    /\ clientCreated' = TRUE
    /\ strategyRaised' = TRUE
    /\ mtRet' = None
    /\ pc' = "fallback"
    /\ UNCHANGED outsideScrape
    /\ UNCHANGED <<envVars, objVars, dataFile, htmlFile, idx, mtResults, htmlResults,
                   htmlRet, results, returned, outcome, fileAtStart, fileWrites,
                   mtCalls, htmlCalls, htmlEntered>>

\* scrape_with_mtproto when initialize_client succeeds: the channel loop starts
MtInitOk ==
    /\ pc = "scrape_with_mtproto"
    /\ mtproto_enabled
    /\ clientCreated' = TRUE
    /\ mtResults' = EmptyDict
    /\ idx' = 1
    /\ pc' = "mt_loop"
    /\ UNCHANGED outsideScrape
    /\ UNCHANGED <<envVars, objVars, dataFile, htmlFile, htmlResults, mtRet,
                   htmlRet, results, returned, outcome, fileAtStart, fileWrites,
                   mtCalls, htmlCalls, htmlEntered, strategyRaised>>

\* one iteration of the loop of TelegramScraper.scrape_all_channels
MtScrapeChannel ==
    /\ pc = "mt_loop"
    /\ idx <= Len(channels)
    /\ \E e \in MtOutcomes :
          mtResults' = (channels[idx] :> e) @@ mtResults
    /\ mtCalls' = Append(mtCalls, channels[idx])
    /\ idx' = idx + 1
    /\ UNCHANGED outsideScrape
    /\ UNCHANGED <<envVars, objVars, dataFile, htmlFile, pc, htmlResults, mtRet,
                   htmlRet, results, returned, outcome, fileAtStart, fileWrites,
                   htmlCalls, clientCreated, htmlEntered, strategyRaised>>

\* end of TelegramScraper.scrape_all_channels (dump to channels_data.json, return)
\* and the success count of scrape_with_mtproto
MtFinish ==
    /\ pc = "mt_loop"
    /\ idx > Len(channels)
    /\ dataFile' = File(mtResults)
    /\ fileWrites' = fileWrites + 1
    /\ mtRet' = strategy_return(mtResults)
    /\ pc' = "fallback"
    /\ UNCHANGED outsideScrape
    /\ UNCHANGED <<envVars, objVars, htmlFile, idx, mtResults, htmlResults,
                   htmlRet, results, returned, outcome, fileAtStart,
                   mtCalls, htmlCalls, clientCreated, htmlEntered, strategyRaised>>

\* end of TelegramScraper.scrape_all_channels when client.disconnect() raises in
\* the finally clause: the file is already dumped, the map never reaches
\* scrape_with_mtproto, whose except clause returns None
MtDisconnectRaises ==
    /\ pc = "mt_loop"
    /\ idx > Len(channels)
    /\ dataFile' = File(mtResults)
    /\ fileWrites' = fileWrites + 1
    /\ strategyRaised' = TRUE
    /\ mtRet' = None
    /\ pc' = "fallback"
    /\ UNCHANGED outsideScrape
    /\ UNCHANGED <<envVars, objVars, htmlFile, idx, mtResults, htmlResults,
                   htmlRet, results, returned, outcome, fileAtStart,
                   mtCalls, htmlCalls, clientCreated, htmlEntered>>

\* scrape_all: results = await self.scrape_with_mtproto(); if not results: ...
ScrapeAllFallback ==
    /\ pc = "fallback"
    /\ results' = mtRet
    /\ IF needs_fallback(mtRet)
       THEN /\ pc' = "scrape_with_html"
            /\ htmlEntered' = TRUE
       ELSE /\ pc' = "finish"
            /\ UNCHANGED htmlEntered
    /\ UNCHANGED outsideScrape
    /\ UNCHANGED <<envVars, objVars, dataFile, htmlFile, idx, mtResults, htmlResults,
                   mtRet, htmlRet, returned, outcome, fileAtStart, fileWrites,
                   mtCalls, htmlCalls, clientCreated, strategyRaised>>

\* scrape_with_html, `if not self.html_enabled: return None`
HtmlSkip ==
    /\ pc = "scrape_with_html"
    /\ ~html_enabled
    /\ htmlRet' = None
    /\ results' = None
    /\ pc' = "finish"
    /\ UNCHANGED outsideScrape
    /\ UNCHANGED <<envVars, objVars, dataFile, htmlFile, idx, mtResults, htmlResults,
                   mtRet, returned, outcome, fileAtStart, fileWrites,
                   mtCalls, htmlCalls, clientCreated, htmlEntered, strategyRaised>>

\* scrape_with_html: the parser's session is opened and the channel loop starts
HtmlOpen ==
    /\ pc = "scrape_with_html"
    /\ html_enabled
    /\ htmlResults' = EmptyDict
    /\ idx' = 1
    /\ pc' = "html_loop"
    /\ UNCHANGED outsideScrape
    /\ UNCHANGED <<envVars, objVars, dataFile, htmlFile, mtResults, mtRet,
                   htmlRet, results, returned, outcome, fileAtStart, fileWrites,
                   mtCalls, htmlCalls, clientCreated, htmlEntered, strategyRaised>>

\* a loop iteration that fetches a channel a second time after a failed fetch
HtmlScrapeChannel_retry ==
    /\ pc = "html_loop"
    /\ idx <= Len(channels)
    /\ \E e \in HtmlOutcomes :
          /\ htmlResults' = (channels[idx] :> e) @@ htmlResults
          /\ idx' = IF e = HtmlFetchFailed /\ (\A i \in 1..Len(htmlCalls) : htmlCalls[i] # channels[idx])
                    THEN idx ELSE idx + 1
    /\ htmlCalls' = Append(htmlCalls, channels[idx])
    /\ UNCHANGED outsideScrape
    /\ UNCHANGED <<envVars, objVars, dataFile, htmlFile, pc, mtResults, mtRet,
                   htmlRet, results, returned, outcome, fileAtStart, fileWrites,
                   mtCalls, clientCreated, htmlEntered, strategyRaised>>

\* one iteration of the loop of TelegramHTMLParser.scrape_all_channels
HtmlScrapeChannel ==
    /\ pc = "html_loop"
    /\ idx <= Len(channels)
    /\ \E e \in HtmlOutcomes :
          htmlResults' = (channels[idx] :> e) @@ htmlResults
    /\ htmlCalls' = Append(htmlCalls, channels[idx])
    /\ idx' = idx + 1
    /\ UNCHANGED outsideScrape
    /\ UNCHANGED <<envVars, objVars, dataFile, htmlFile, pc, mtResults, mtRet,
                   htmlRet, results, returned, outcome, fileAtStart, fileWrites,
                   mtCalls, clientCreated, htmlEntered, strategyRaised>>

\* end of TelegramHTMLParser.scrape_all_channels (dump to channels_data_html.json),
\* the success count of scrape_with_html and the assignment in scrape_all
HtmlFinish ==
    /\ pc = "html_loop"
    /\ idx > Len(channels)
    /\ htmlFile' = File(htmlResults)
    /\ htmlRet' = strategy_return(htmlResults)
    /\ results' = strategy_return(htmlResults)
    /\ pc' = "finish"
    /\ UNCHANGED outsideScrape
    /\ UNCHANGED <<envVars, objVars, dataFile, idx, mtResults, htmlResults,
                   mtRet, returned, outcome, fileAtStart, fileWrites,
                   mtCalls, htmlCalls, clientCreated, htmlEntered, strategyRaised>>

\* scrape_all, `if not results:` complete failure
ScrapeAllFail ==
    /\ pc = "finish"
    /\ Falsy(results)
    /\ returned' = ErrorRecord
    /\ outcome' = "Failed"
    /\ pc' = "done"
    /\ UNCHANGED outsideScrape
    /\ UNCHANGED <<envVars, objVars, dataFile, htmlFile, idx, mtResults, htmlResults,
                   mtRet, htmlRet, results, fileAtStart, fileWrites,
                   mtCalls, htmlCalls, clientCreated, htmlEntered, strategyRaised>>

\* scrape_all: dump results to channels_data.json, then add _metadata and return
ScrapeAllSave ==
    /\ pc = "finish"
    /\ ~Falsy(results)
    /\ dataFile' = File(persisted_document(results, mtproto_enabled, html_enabled))
    /\ fileWrites' = fileWrites + 1
    /\ results' = returned_document(results, mtproto_enabled, html_enabled)
    /\ returned' = returned_document(results, mtproto_enabled, html_enabled)
    /\ outcome' = "Success"
    /\ pc' = "done"
    /\ UNCHANGED outsideScrape
    /\ UNCHANGED <<envVars, objVars, htmlFile, idx, mtResults, htmlResults,
                   mtRet, htmlRet, fileAtStart,
                   mtCalls, htmlCalls, clientCreated, htmlEntered, strategyRaised>>

NextScrape ==
    \/ MtSkip
    \/ MtInitFail
    \/ MtInitOk
    \/ MtScrapeChannel
    \/ MtFinish
    \/ MtDisconnectRaises
    \/ ScrapeAllFallback
    \/ HtmlSkip
    \/ HtmlOpen
    \/ HtmlScrapeChannel
    \/ HtmlFinish
    \/ ScrapeAllFail
    \/ ScrapeAllSave

SpecScrape == InitScrape /\ [][NextScrape]_vars

\* scrape_all under the event loop: asyncio runs the coroutine on while a step
\* is enabled, and every awaited network call returns or times out
SpecScrapeFair == SpecScrape /\ WF_vars(NextScrape)

----------------------------------------------------------------------------
(* The daily scheduled job: main and run_daily_scraping
   (backend/telegram_scraper.py) *)

\* what TelegramScraper.scrape_all_channels returns when the client cannot start
InitErrorRecord == [error |-> "Failed to initialize Telegram client"]

\* the process of main(): the job is scheduled, no run has started; the
\* process holds no UnifiedTelegramScraper object
InitDaily ==
    /\ env_api_id \in EnvIds
    /\ env_api_hash \in EnvHashes
    /\ MTPROTO_AVAILABLE = TRUE
    /\ HTML_PARSER_AVAILABLE \in BOOLEAN
    /\ mtproto_enabled = FALSE
    /\ html_enabled = FALSE
    /\ dataFile \in PriorFiles
    /\ htmlFile = Missing
    /\ pc = "main"
    /\ idx = 1
    /\ mtResults = EmptyDict
    /\ htmlResults = EmptyDict
    /\ mtRet = None
    /\ htmlRet = None
    /\ results = None
    /\ returned = None
    /\ outcome = "none"
    /\ fileAtStart = dataFile
    /\ fileWrites = 0
    /\ mtCalls = <<>>
    /\ htmlCalls = <<>>
    /\ clientCreated = FALSE
    /\ htmlEntered = FALSE
    /\ strategyRaised = FALSE
    /\ CacheInitial
    /\ PostsInitial
    /\ ToolsInitialExcept("none")

\* main: schedule.run_pending() finds the job due and calls run_daily_scraping,
\* which builds a Config and a TelegramScraper and runs scrape_all_channels
RunPending ==
    /\ pc = "main"
    /\ pc' = "run_daily_scraping"
    /\ UNCHANGED outsideScrape
    /\ UNCHANGED <<envVars, objVars, dataFile, htmlFile, idx, mtResults, htmlResults,
                   mtRet, htmlRet, results, returned, outcome, fileAtStart,
                   fileWrites, mtCalls, htmlCalls, clientCreated, htmlEntered,
                   strategyRaised>>

\* scrape_all_channels, `if not await self.initialize_client(): return {'error': ...}`;
\* run_daily_scraping prints the record and returns (the TelegramClient
\* constructor refuses an empty api_id or api_hash)
DailyInitFail ==
    /\ pc = "run_daily_scraping"
    /\ clientCreated' = (env_api_id # "" /\ env_api_hash # "")
    /\ returned' = InitErrorRecord
    /\ pc' = "done"
    /\ UNCHANGED outsideScrape
    /\ UNCHANGED <<envVars, objVars, dataFile, htmlFile, idx, mtResults, htmlResults,
                   mtRet, htmlRet, results, outcome, fileAtStart, fileWrites,
                   mtCalls, htmlCalls, htmlEntered, strategyRaised>>

\* scrape_all_channels when initialize_client succeeds, which takes credentials
\* the provider accepts: the channel loop starts
DailyInitOk ==
    /\ pc = "run_daily_scraping"
    /\ env_api_id \notin {"", "your_api_id_here"}
    /\ env_api_hash \notin {"", "your_api_hash_here"}
    /\ clientCreated' = TRUE
    /\ mtResults' = EmptyDict
    /\ idx' = 1
    /\ pc' = "mt_loop"
    /\ UNCHANGED outsideScrape
    /\ UNCHANGED <<envVars, objVars, dataFile, htmlFile, htmlResults, mtRet,
                   htmlRet, results, returned, outcome, fileAtStart, fileWrites,
                   mtCalls, htmlCalls, htmlEntered, strategyRaised>>

\* end of scrape_all_channels in the daily job: the map is dumped to
\* channels_data.json and returned to run_daily_scraping, which prints it
DailyFinish ==
    /\ pc = "mt_loop"
    /\ idx > Len(channels)
    /\ dataFile' = File(mtResults)
    /\ fileWrites' = fileWrites + 1
    /\ returned' = mtResults
    /\ pc' = "done"
    /\ UNCHANGED outsideScrape
    /\ UNCHANGED <<envVars, objVars, htmlFile, idx, mtResults, htmlResults,
                   mtRet, htmlRet, results, outcome, fileAtStart,
                   mtCalls, htmlCalls, clientCreated, htmlEntered, strategyRaised>>

\* end of scrape_all_channels in the daily job when client.disconnect() raises
\* in the finally clause: the file is dumped, run_daily_scraping logs the error
DailyDisconnectRaises ==
    /\ pc = "mt_loop"
    /\ idx > Len(channels)
    /\ dataFile' = File(mtResults)
    /\ fileWrites' = fileWrites + 1
    /\ strategyRaised' = TRUE
    /\ pc' = "done"
    /\ UNCHANGED outsideScrape
    /\ UNCHANGED <<envVars, objVars, htmlFile, idx, mtResults, htmlResults,
                   mtRet, htmlRet, results, returned, outcome, fileAtStart,
                   mtCalls, htmlCalls, clientCreated, htmlEntered>>

NextDaily ==
    \/ RunPending
    \/ DailyInitFail
    \/ DailyInitOk
    \/ MtScrapeChannel
    \/ DailyFinish
    \/ DailyDisconnectRaises

SpecDaily == InitDaily /\ [][NextDaily]_vars

----------------------------------------------------------------------------
(* DataCache and get_channel_data (backend/api_server.py) *)

\* APIConfig.cache_ttl, in seconds
cache_ttl == 3600

\* the contents a dict held by the cache or by a caller can have
DictValues == {EmptyDict, MtEntry(MtInfo, 1)}

\* the states of channels_data.json the read path meets: no file, a document
\* with one channel, a document with a failed and a successful channel
CacheFileStates ==
    {Missing,
     File("vanyashuvalov" :> MtEntry(MtInfo, 1)),
     File(("vanyashuvalov" :> HtmlFetchFailed) @@ ("vanya_knopochkin" :> MtEntry(MtInfo, 1)))}

\* the amounts by which the clock advances between two operations
TickSteps == {1, cache_ttl - 1}

\* truth value of a dict: `if cached_data:`, `if channel_data:`
Truthy(content) == DOMAIN content # {}

\* `if cached_data:` on a reference: None is falsy, a dict as its content says
IsTruthyRef(h, r) == IF r = NoneRef THEN FALSE ELSE Truthy(h[r])

\* del d[key]
Remove(d, key) == [k \in DOMAIN d \ {key} |-> d[k]]

\* DataCache.get without the age test: an entry is served whatever its age
DataCache_get_no_expiry(c, t, key, nowT) ==
    IF key \in DOMAIN c
    THEN [result |-> c[key], cache |-> c, timestamps |-> t]
    ELSE [result |-> NoneRef, cache |-> c, timestamps |-> t]

\* DataCache.get with the age test inverted: a young entry is evicted
DataCache_get_inverted(c, t, key, nowT) ==
    IF key \in DOMAIN c
    THEN IF nowT - t[key] >= cache_ttl
         THEN [result |-> c[key], cache |-> c, timestamps |-> t]
         ELSE [result |-> NoneRef, cache |-> Remove(c, key),
               timestamps |-> Remove(t, key)]
    ELSE [result |-> NoneRef, cache |-> c, timestamps |-> t]

\* DataCache.get that returns nothing for a stale entry but leaves it in place
DataCache_get_no_evict(c, t, key, nowT) ==
    IF key \in DOMAIN c /\ nowT - t[key] < cache_ttl
    THEN [result |-> c[key], cache |-> c, timestamps |-> t]
    ELSE [result |-> NoneRef, cache |-> c, timestamps |-> t]

\* DataCache.get: the returned reference and the maps after the call
DataCache_get(c, t, key, nowT) ==
    IF key \in DOMAIN c
    THEN IF nowT - t[key] < cache_ttl
         THEN [result |-> c[key], cache |-> c, timestamps |-> t]
         ELSE [result |-> NoneRef, cache |-> Remove(c, key),
               timestamps |-> Remove(t, key)]
    ELSE [result |-> NoneRef, cache |-> c, timestamps |-> t]

\* DataCache.set: the maps after the call
DataCache_set(c, t, key, ref, nowT) ==
    [cache |-> (key :> ref) @@ c, timestamps |-> (key :> nowT) @@ t]

\* load_channels_data: {} when the file is missing, and when open or
\* json.load raises
load_channels_data(f) == IF f.exists /\ "doc" \in DOMAIN f THEN f.doc ELSE EmptyDict

\* the content behind a reference, None for the None reference
Deref(h, r) == IF r = NoneRef THEN None ELSE h[r]

\* the scraper at rest, for the specifications that do not run it
ScrapeInitial ==
    /\ env_api_id = ""
    /\ env_api_hash = ""
    /\ MTPROTO_AVAILABLE = FALSE
    /\ HTML_PARSER_AVAILABLE = FALSE
    /\ mtproto_enabled = FALSE
    /\ html_enabled = FALSE
    /\ htmlFile = Missing
    /\ pc = "idle"
    /\ idx = 1
    /\ mtResults = EmptyDict
    /\ htmlResults = EmptyDict
    /\ mtRet = None
    /\ htmlRet = None
    /\ results = None
    /\ returned = None
    /\ outcome = "none"
    /\ fileAtStart = Missing
    /\ fileWrites = 0
    /\ mtCalls = <<>>
    /\ htmlCalls = <<>>
    /\ clientCreated = FALSE
    /\ htmlEntered = FALSE
    /\ strategyRaised = FALSE

scrapeButFile == <<env_api_id, env_api_hash, MTPROTO_AVAILABLE, HTML_PARSER_AVAILABLE,
                   mtproto_enabled, html_enabled, htmlFile, pc, idx,
                   mtResults, htmlResults, mtRet, htmlRet, results, returned, outcome,
                   fileAtStart, fileWrites, mtCalls, htmlCalls, clientCreated,
                   htmlEntered, strategyRaised>>

outsideCache == <<scrapeButFile, postVars, toolVars, moreVars>>

InitCache ==
    /\ CacheInitial
    /\ ScrapeInitial
    /\ PostsInitial
    /\ ToolsInitialExcept("none")
    /\ dataFile \in CacheFileStates

\* the record of an operation that has just returned
Observed(op, key, result) == [op |-> op, key |-> key, result |-> result]

\* a caller builds a dict
NewDict ==
    /\ Len(heap) < MaxObjs
    /\ \E v \in DictValues : heap' = Append(heap, v)
    /\ UNCHANGED <<_cache, _timestamps, now, ticks, lastOp, lastSet, dataFile>>
    /\ UNCHANGED outsideCache

\* a caller changes a dict it holds a reference to
MutateDict ==
    /\ \E o \in 1..Len(heap) : \E v \in DictValues \ {heap[o]} :
          heap' = [heap EXCEPT ![o] = v]
    /\ UNCHANGED <<_cache, _timestamps, now, ticks, lastOp, lastSet, dataFile>>
    /\ UNCHANGED outsideCache

\* cache.get(key)
CacheGet ==
    /\ \E key \in Keys :
          LET g == DataCache_get(_cache, _timestamps, key, now) IN
          /\ _cache' = g.cache
          /\ _timestamps' = g.timestamps
          /\ lastOp' = Observed("get", key, g.result)
    /\ UNCHANGED <<heap, now, ticks, lastSet, dataFile>>
    /\ UNCHANGED outsideCache

\* cache.set(key, data) with a dict the caller holds
CacheSet ==
    /\ \E key \in Keys : \E o \in 1..Len(heap) :
          LET s == DataCache_set(_cache, _timestamps, key, o, now) IN
          /\ _cache' = s.cache
          /\ _timestamps' = s.timestamps
          /\ lastOp' = Observed("set", key, NoneRef)
          /\ lastSet' = [lastSet EXCEPT ![key] =
                            [ref |-> o, at |-> now, content |-> heap[o]]]
    /\ UNCHANGED <<heap, now, ticks, dataFile>>
    /\ UNCHANGED outsideCache

\* get_channel_data(channel_username) answered from the cache
GetChannelDataHit ==
    /\ \E u \in Usernames :
          LET g == DataCache_get(_cache, _timestamps, cache_key(u), now) IN
          /\ IsTruthyRef(heap, g.result)
          /\ _cache' = g.cache
          /\ _timestamps' = g.timestamps
          /\ lastOp' = Observed("get_channel_data", cache_key(u), g.result)
    /\ UNCHANGED <<heap, now, ticks, lastSet, dataFile>>
    /\ UNCHANGED outsideCache

\* get_channel_data(channel_username) answered from the file: json.load builds a
\* fresh dict for the channel's entry, which is cached when it is truthy
GetChannelDataLoad ==
    /\ \E u \in Usernames :
          LET key == cache_key(u)
              g == DataCache_get(_cache, _timestamps, key, now)
              all_data == load_channels_data(dataFile)
              o == Len(heap) + 1
          IN
          /\ ~IsTruthyRef(heap, g.result)
          /\ IF u \in DOMAIN all_data
             THEN /\ Len(heap) < MaxObjs
                  /\ heap' = Append(heap, all_data[u])
                  /\ IF Truthy(all_data[u])
                     THEN LET s == DataCache_set(g.cache, g.timestamps, key, o, now) IN
                          /\ _cache' = s.cache
                          /\ _timestamps' = s.timestamps
                          /\ lastSet' = [lastSet EXCEPT ![key] =
                                 [ref |-> o, at |-> now, content |-> all_data[u]]]
                     ELSE /\ _cache' = g.cache
                          /\ _timestamps' = g.timestamps
                          /\ UNCHANGED lastSet
                  /\ lastOp' = Observed("get_channel_data", key, o)
             ELSE /\ _cache' = g.cache
                  /\ _timestamps' = g.timestamps
                  /\ lastOp' = Observed("get_channel_data", key, NoneRef)
                  /\ UNCHANGED <<heap, lastSet>>
    /\ UNCHANGED <<now, ticks, dataFile>>
    /\ UNCHANGED outsideCache

\* time passes
Tick ==
    /\ ticks < MaxTicks
    /\ \E d \in TickSteps : now' = now + d
    /\ ticks' = ticks + 1
    /\ UNCHANGED <<_cache, _timestamps, heap, lastOp, lastSet, dataFile>>
    /\ UNCHANGED outsideCache

NextCache ==
    \/ NewDict
    \/ MutateDict
    \/ CacheGet
    \/ CacheSet
    \/ GetChannelDataHit
    \/ GetChannelDataLoad
    \/ Tick

SpecCache == InitCache /\ [][NextCache]_vars

----------------------------------------------------------------------------
(* The ordering step of TelegramHTMLParser.parse_channel_posts *)

\* HTMLParserConfig.posts_limit
posts_limit == 50

\* The `datetime` attribute of a post's <time> element, as _parse_single_post
\* stores it in 'date': None without a <time> element, '' for an empty
\* attribute, else an ISO-8601 string YYYY-MM-DDTHH:MM:SS+HH:00, held as the
\* hour it spells (local) and its UTC offset in hours (off).
NoDate == [kind |-> "none"]
EmptyDate == [kind |-> "empty"]
IsoDate(local, off) == [kind |-> "iso", local |-> local, off |-> off]

\* the hours and the offsets the dates of a page are spelled with
Hours == {8, 10}
Offsets == {0, 3}

DateValues == {NoDate, EmptyDate} \cup {IsoDate(h, o) : h \in Hours, o \in Offsets}

\* `p.get('date')` is truthy
HasDate(p) == p.date.kind = "iso"

\* a < b for two ISO strings of this shape, as Python compares str: character
\* by character, so by the local time first and by the offset text after it
StrLess(a, b) == a.local < b.local \/ (a.local = b.local /\ a.off < b.off)

\* the point in time an ISO string denotes, in hours
Instant(d) == d.local - d.off

\* [p for p in posts if cond(p)]
RECURSIVE FilterDated(_, _)
FilterDated(ps, want) ==
    IF ps = <<>> THEN <<>>
    ELSE IF HasDate(Head(ps)) = want
         THEN <<Head(ps)>> \o FilterDated(Tail(ps), want)
         ELSE FilterDated(Tail(ps), want)

\* the insertion of a sort that lacks reverse=True: ascending by date string
RECURSIVE InsertAsc(_, _)
InsertAsc(sorted, x) ==
    IF sorted = <<>> THEN <<x>>
    ELSE IF StrLess(x.date, Head(sorted).date)
         THEN <<x>> \o sorted
         ELSE <<Head(sorted)>> \o InsertAsc(Tail(sorted), x)

\* x put into a list sorted by date string, descending, after the elements
\* that do not compare below it (list.sort is stable, also with reverse=True)
RECURSIVE InsertDesc(_, _)
InsertDesc(sorted, x) ==
    IF sorted = <<>> THEN <<x>>
    ELSE IF StrLess(Head(sorted).date, x.date)
         THEN <<x>> \o sorted
         ELSE <<Head(sorted)>> \o InsertDesc(Tail(sorted), x)

\* posts_with_dates.sort(key=lambda x: x['date'], reverse=True)
RECURSIVE SortByDateDesc(_)
SortByDateDesc(ps) ==
    IF ps = <<>> THEN <<>>
    ELSE InsertDesc(SortByDateDesc(SubSeq(ps, 1, Len(ps) - 1)), ps[Len(ps)])

\* xs[:n]
Take(xs, n) == SubSeq(xs, 1, IF Len(xs) < n THEN Len(xs) ELSE n)

\* the limit applied before the ordering instead of after it
order_posts_limit_first(ps, limit) ==
    LET first == Take(ps, limit)
    IN  SortByDateDesc(FilterDated(first, TRUE)) \o FilterDated(first, FALSE)

\* parse_channel_posts from `posts_with_dates = ...` to `return limited_posts`
order_posts(ps, limit) ==
    Take(SortByDateDesc(FilterDated(ps, TRUE)) \o FilterDated(ps, FALSE), limit)

\* the lists the parse loop can build: post i of the page has id i
RECURSIVE PostLists(_)
PostLists(n) ==
    IF n = 0 THEN {<<>>}
    ELSE PostLists(n - 1) \cup
         {Append(ps, [id |-> n, date |-> d]) :
             ps \in {q \in PostLists(n - 1) : Len(q) = n - 1}, d \in DateValues}

outsidePosts == <<scrapeVars, cacheVars, toolVars, moreVars>>

InitPosts ==
    /\ posts \in PostLists(MaxLen)
    /\ limited_posts = <<>>
    /\ parse_pc = "parsed"
    /\ ScrapeInitial
    /\ dataFile = Missing
    /\ CacheInitial
    /\ ToolsInitialExcept("none")

\* the ordering step and the return of parse_channel_posts
OrderPosts ==
    /\ parse_pc = "parsed"
    /\ limited_posts' = order_posts(posts, posts_limit)
    /\ parse_pc' = "returned"
    /\ UNCHANGED posts
    /\ UNCHANGED outsidePosts

NextPosts ==
    \/ OrderPosts

SpecPosts == InitPosts /\ [][NextPosts]_vars

----------------------------------------------------------------------------
(* Text extraction of TelegramHTMLParser._parse_single_post *)

\* A Python str is held as the sequence of its characters; '' is <<>>.
IsSpace(c) == c = " "

\* str.lstrip()
RECURSIVE lstrip(_)
lstrip(s) ==
    IF s = <<>> THEN <<>>
    ELSE IF IsSpace(Head(s)) THEN lstrip(Tail(s)) ELSE s

\* str.rstrip()
RECURSIVE rstrip(_)
rstrip(s) ==
    IF s = <<>> THEN <<>>
    ELSE IF IsSpace(s[Len(s)]) THEN rstrip(SubSeq(s, 1, Len(s) - 1)) ELSE s

\* str.strip()
strip(s) == rstrip(lstrip(s))

\* The part of a message widget that text extraction looks at: a
\* <div class="tgme_widget_message_text"> is the sequence of its children,
\* each a string of the page or a nested div of the same class.
TextNode(s) == [string |-> s]
TextDiv(children) == [children |-> children]
IsTextNode(n) == "string" \in DOMAIN n

\* elem.find('div', class_='tgme_widget_message_text'): the first descendant
\* div in document order, None when there is none
RECURSIVE find_text_div(_)
find_text_div(children) ==
    IF children = <<>> THEN None
    ELSE IF ~IsTextNode(Head(children)) THEN Head(children)
         ELSE find_text_div(Tail(children))

\* elem.get_text(strip=True): every string below elem in document order,
\* each one stripped, the empty ones dropped, joined without a separator
RECURSIVE get_text(_)
get_text(children) ==
    IF children = <<>> THEN <<>>
    ELSE (IF IsTextNode(Head(children))
          THEN strip(Head(children).string)
          ELSE get_text(Head(children).children)) \o get_text(Tail(children))

\* _parse_single_post, from `text_elem = widget.find(...)` to `text = ''`;
\* elem, the `text_elem` of the code, is None when the widget holds no text
\* container
extract_text(elem) ==
    IF elem = None THEN <<>>
    ELSE LET nested_text_elem == find_text_div(elem.children)
         IN  IF nested_text_elem # None
             THEN get_text(nested_text_elem.children)
             ELSE get_text(elem.children)

\* _parse_single_post; data_post is the number after the slash of the
\* data-post attribute, 0 when the attribute is missing or ends in a slash
_parse_single_post(widget) ==
    IF widget.data_post = 0 THEN None
    ELSE [id |-> widget.data_post,
          text |-> extract_text(widget.text_elem),
          date |-> widget.date]

\* the loop of parse_channel_posts over message_widgets
RECURSIVE parse_widgets(_)
parse_widgets(message_widgets) ==
    IF message_widgets = <<>> THEN <<>>
    ELSE LET post == _parse_single_post(Head(message_widgets))
         IN  (IF post # None THEN <<post>> ELSE <<>>)
                 \o parse_widgets(Tail(message_widgets))

----------------------------------------------------------------------------
(* One call of TelegramHTMLParser.scrape_channel *)

\* parse_channel_posts; a page the HTML library cannot load takes the
\* except branch
parse_channel_posts(page, limit) ==
    IF ~page.loads THEN <<>>
    ELSE order_posts(parse_widgets(page.widgets), limit)

\* parse_channel_info
parse_channel_info(page) == IF ~page.loads THEN None ELSE HtmlInfo

\* the text containers of the widgets of a page
PageTextElems ==
    {None, TextDiv(<<>>), TextDiv(<<TextNode(<<"H", "i">>)>>)}

\* the hours of the dates of a page, all spelled with offset +00:00
PageHours == {7, 8, 9}
PageDates == {NoDate} \cup {IsoDate(h, 0) : h \in PageHours}

\* widget number i of a page
PageWidgets(i) ==
    {[data_post |-> 0, text_elem |-> None, date |-> NoDate]} \cup
    {[data_post |-> i, text_elem |-> t, date |-> d] :
        t \in PageTextElems, d \in PageDates}

RECURSIVE WidgetLists(_)
WidgetLists(n) ==
    IF n = 0 THEN {<<>>}
    ELSE WidgetLists(n - 1) \cup
         {Append(ws, w) :
             ws \in {q \in WidgetLists(n - 1) : Len(q) = n - 1}, w \in PageWidgets(n)}

\* the body of a 200 answer: empty, a page the HTML library cannot load, or
\* a page with its message widgets
EmptyBody == [empty |-> TRUE]
BrokenPage == [empty |-> FALSE, loads |-> FALSE, widgets |-> <<>>]
Page(ws) == [empty |-> FALSE, loads |-> TRUE, widgets |-> ws]

\* what session.get can yield
HttpResponse(status, body) == [kind |-> "http", status |-> status, body |-> body]
FailedResponses ==
    {HttpResponse(404, EmptyBody), HttpResponse(500, BrokenPage),
     [kind |-> "timeout"], [kind |-> "client_error"]}
Responses ==
    FailedResponses \cup {HttpResponse(200, EmptyBody), HttpResponse(200, BrokenPage)}
        \cup {HttpResponse(200, Page(ws)) : ws \in WidgetLists(MaxWidgets)}

\* the values self.config.posts_limit is given
PostsLimits == {2, posts_limit}

\* a call returns a value or raises
Returns(v) == [raised |-> FALSE, value |-> v]
Raises(e) == [raised |-> TRUE, error |-> e]

\* fetch_channel_html without its except clauses
fetch_channel_html_uncaught(r) ==
    IF r.kind = "http"
    THEN Returns(IF r.status = 200 THEN r.body ELSE None)
    ELSE Raises(r.kind)

\* fetch_channel_html
fetch_channel_html(r) ==
    IF r.kind = "http"
    THEN Returns(IF r.status = 200 THEN r.body ELSE None)
    ELSE Returns(None)

\* `not html` of scrape_channel
not_html(h) == h = None \/ h = EmptyBody

\* the dict scrape_channel returns when there is no html
FetchFailedResult ==
    [channel_info |-> None, posts |-> <<>>, success |-> FALSE,
     error |-> "Failed to fetch channel HTML"]

outsidePage ==
    <<scrapeVars, cacheVars, postVars, countVars, textVars, dateVars,
      latestVars, gatherVars,
      moreVars>>

InitPage ==
    /\ config_posts_limit \in PostsLimits
    /\ response \in Responses
    /\ channel_html = None
    /\ scraped = None
    /\ scrape_pc = "start"
    /\ ScrapeInitial
    /\ dataFile = Missing
    /\ CacheInitial
    /\ PostsInitial
    /\ ToolsInitialExcept("page")

\* html = await self.fetch_channel_html(channel_username)
FetchChannelHtml ==
    /\ scrape_pc = "start"
    /\ LET r == fetch_channel_html(response)
       IN  IF r.raised
           THEN /\ scrape_pc' = "raised"
                /\ UNCHANGED channel_html
           ELSE /\ scrape_pc' = "fetched"
                /\ channel_html' = r.value
    /\ UNCHANGED <<config_posts_limit, response, scraped>>
    /\ UNCHANGED outsidePage

\* `if not html: return {...}`
ScrapeChannelNoHtml ==
    /\ scrape_pc = "fetched"
    /\ not_html(channel_html)
    /\ scraped' = FetchFailedResult
    /\ scrape_pc' = "returned"
    /\ UNCHANGED <<config_posts_limit, response, channel_html>>
    /\ UNCHANGED outsidePage

\* parse_channel_info, parse_channel_posts and the return of scrape_channel
ScrapeChannelParse ==
    /\ scrape_pc = "fetched"
    /\ ~not_html(channel_html)
    /\ LET channel_info == parse_channel_info(channel_html)
           parsed == parse_channel_posts(channel_html, config_posts_limit)
       IN  scraped' = [channel_info |-> channel_info, posts |-> parsed,
                       success |-> channel_info # None, parser |-> "html"]
    /\ scrape_pc' = "returned"
    /\ UNCHANGED <<config_posts_limit, response, channel_html>>
    /\ UNCHANGED outsidePage

NextPage ==
    \/ FetchChannelHtml
    \/ ScrapeChannelNoHtml
    \/ ScrapeChannelParse

SpecPage == InitPage /\ [][NextPage]_vars

----------------------------------------------------------------------------
(* Count parsing: _parse_view_count and _parse_subscriber_count            *)
(* (telegram_html_parser.py), over texts held as sequences of characters;  *)
(* the word "subscribers" of the counter text is one element.              *)

\* str.lower() on one character
lower(c) == IF c = "K" THEN "k" ELSE IF c = "M" THEN "m" ELSE c

\* text.replace(c, '')
RECURSIVE replace_char(_, _)
replace_char(s, c) ==
    IF s = <<>> THEN <<>>
    ELSE IF Head(s) = c THEN replace_char(Tail(s), c)
         ELSE <<Head(s)>> \o replace_char(Tail(s), c)

\* text.lower().replace(' ', '').replace(',', '')
count_normalise(text) ==
    replace_char(replace_char([i \in 1..Len(text) |-> lower(text[i])], " "), ",")

\* `c in text`
Contains(s, c) == \E i \in 1..Len(s) : s[i] = c

DigitVal ==
    [c \in {"0", "1", "2", "3", "4", "5", "6", "7", "8", "9"} |->
        CASE c = "0" -> 0 [] c = "1" -> 1 [] c = "2" -> 2 [] c = "3" -> 3
          [] c = "4" -> 4 [] c = "5" -> 5 [] c = "6" -> 6 [] c = "7" -> 7
          [] c = "8" -> 8 [] c = "9" -> 9]

IsDigit(c) == c \in DOMAIN DigitVal

\* the number a string of digits spells; 0 for ''
RECURSIVE DigitsValue(_)
DigitsValue(s) ==
    IF s = <<>> THEN 0
    ELSE 10 * DigitsValue(SubSeq(s, 1, Len(s) - 1)) + DigitVal[s[Len(s)]]

RECURSIVE Pow(_, _)
Pow(b, e) == IF e = 0 THEN 1 ELSE b * Pow(b, e - 1)

\* ---- binary64 arithmetic. A whole number of any size is the sequence of
\* ---- its digits in base 2^LimbBits (limbs) or in base 2 (bits), the most
\* ---- significant digit first.

\* the bits of a Python float's significand
PrecisionBits == 53

\* the bits of one limb
LimbBits == 10
LimbBase == Pow(2, LimbBits)

Zeros(k) == [i \in 1..k |-> 0]

RECURSIVE ToLimbs(_)
ToLimbs(n) == IF n = 0 THEN <<>> ELSE Append(ToLimbs(n \div LimbBase), n % LimbBase)

RECURSIVE ToBits(_)
ToBits(n) == IF n = 0 THEN <<>> ELSE Append(ToBits(n \div 2), n % 2)

RECURSIVE FromBits(_)
FromBits(b) ==
    IF b = <<>> THEN 0
    ELSE 2 * FromBits(SubSeq(b, 1, Len(b) - 1)) + b[Len(b)]

\* b without its leading zeros
StripZeros(b) ==
    IF \A i \in 1..Len(b) : b[i] = 0 THEN <<>>
    ELSE LET first == CHOOSE i \in 1..Len(b) :
                          b[i] = 1 /\ \A j \in 1..(i - 1) : b[j] = 0
         IN  SubSeq(b, first, Len(b))

\* the bits of a number given by its limbs
LimbsToBits(x) ==
    StripZeros([i \in 1..(LimbBits * Len(x)) |->
        (x[(i - 1) \div LimbBits + 1]
            \div Pow(2, LimbBits - 1 - ((i - 1) % LimbBits))) % 2])

\* the limbs of a number given by its bits
BitsToLimbs(b) ==
    LET k == (Len(b) + LimbBits - 1) \div LimbBits
        padded == Zeros(k * LimbBits - Len(b)) \o b
    IN  [j \in 1..k |->
            FromBits(SubSeq(padded, (j - 1) * LimbBits + 1, j * LimbBits))]

\* x * m + carry, on limbs
RECURSIVE MulSmall(_, _, _)
MulSmall(x, m, carry) ==
    IF x = <<>> THEN ToLimbs(carry)
    ELSE LET t == x[Len(x)] * m + carry
         IN  Append(MulSmall(SubSeq(x, 1, Len(x) - 1), m, t \div LimbBase),
                    t % LimbBase)

\* the quotient of x divided by d, on limbs, rem being the remainder so far
RECURSIVE DivSmall(_, _, _)
DivSmall(x, d, rem) ==
    IF x = <<>> THEN <<>>
    ELSE LET cur == rem * LimbBase + Head(x)
         IN  <<cur \div d>> \o DivSmall(Tail(x), d, cur % d)

\* the remainder of x divided by d, on limbs, rem being the remainder so far
RECURSIVE ModSmall(_, _, _)
ModSmall(x, d, rem) ==
    IF x = <<>> THEN rem
    ELSE ModSmall(Tail(x), d, (rem * LimbBase + Head(x)) % d)

\* b + 1, on bits
Inc(b) ==
    IF \A i \in 1..Len(b) : b[i] = 1 THEN <<1>> \o Zeros(Len(b))
    ELSE LET last == CHOOSE i \in 1..Len(b) :
                         b[i] = 0 /\ \A j \in (i + 1)..Len(b) : b[j] = 1
         IN  [i \in 1..Len(b) |-> IF i < last THEN b[i] ELSE IF i = last THEN 1 ELSE 0]

\* the bits b (no leading zero) rounded to PrecisionBits bits, ties to even;
\* sticky says that the exact value has further non-zero bits below b. The
\* result is m * 2^shift.
Round(b, sticky) ==
    IF Len(b) <= PrecisionBits THEN [m |-> b, shift |-> 0]
    ELSE LET top == SubSeq(b, 1, PrecisionBits)
             guard == b[PrecisionBits + 1]
             below == sticky \/ \E i \in (PrecisionBits + 2)..Len(b) : b[i] = 1
             up == guard = 1 /\ (below \/ top[PrecisionBits] = 1)
         IN  [m |-> IF up THEN Inc(top) ELSE top, shift |-> Len(b) - PrecisionBits]

\* float(s) for a literal of value n / 10^d: the nearest float, mant * 2^exp
float_of_decimal(n, d) ==
    IF n = 0 THEN [mant |-> <<>>, exp |-> 0]
    ELSE LET scale == (PrecisionBits + Len(ToBits(Pow(10, d))) + 1) \div LimbBits + 1
             num == ToLimbs(n) \o Zeros(scale)
             r == Round(LimbsToBits(DivSmall(num, Pow(10, d), 0)),
                        ModSmall(num, Pow(10, d), 0) # 0)
         IN  [mant |-> r.m, exp |-> r.shift - LimbBits * scale]

\* x * m for a float x and a whole number m that is itself a float
float_mul(x, m) ==
    LET r == Round(LimbsToBits(MulSmall(BitsToLimbs(x.mant), m, 0)), FALSE)
    IN  [mant |-> r.m, exp |-> x.exp + r.shift]

\* int(x) for a float x >= 0: the fraction is cut off
float_trunc(x) ==
    IF x.exp >= 0 THEN FromBits(x.mant \o Zeros(x.exp))
    ELSE IF -x.exp >= Len(x.mant) THEN 0
         ELSE FromBits(SubSeq(x.mant, 1, Len(x.mant) + x.exp))

\* ---- float(s): an optional minus sign, digits with at most one point and
\* ---- at least one digit; anything else raises ValueError
float_literal(s) ==
    LET neg == s # <<>> /\ Head(s) = "-"
        r == IF neg THEN Tail(s) ELSE s
        digs == replace_char(r, ".")
        point == CHOOSE i \in 1..(Len(r) + 1) :
                     /\ \A j \in 1..(i - 1) : r[j] # "."
                     /\ (i = Len(r) + 1 \/ r[i] = ".")
    IN  [ok |-> /\ digs # <<>>
                /\ \A i \in 1..Len(digs) : IsDigit(digs[i])
                /\ Len(r) - Len(digs) <= 1,
         neg |-> neg,
         n |-> digs,
         d |-> IF point > Len(r) THEN 0 ELSE Len(r) - point]

\* int(float(s) * m), 0 when float(s) raises
scaled_count(s, m) ==
    LET f == float_literal(s)
    IN  IF ~f.ok THEN 0
        ELSE LET v == float_trunc(float_mul(float_of_decimal(DigitsValue(f.n), f.d), m))
             IN  IF f.neg THEN -v ELSE v

\* re.search(r'\d+', text): the first run of digits, '' when there is none
RECURSIVE first_digits(_)
first_digits(s) ==
    IF s = <<>> THEN <<>>
    ELSE IF ~IsDigit(Head(s)) THEN first_digits(Tail(s))
         ELSE LET run == CHOOSE k \in 1..Len(s) :
                             /\ \A i \in 1..k : IsDigit(s[i])
                             /\ (k = Len(s) \/ ~IsDigit(s[k + 1]))
              IN  SubSeq(s, 1, run)

\* _parse_view_count
_parse_view_count(text) ==
    LET t == count_normalise(text)
    IN  IF Contains(t, "k") THEN scaled_count(replace_char(t, "k"), 1000)
        ELSE IF Contains(t, "m") THEN scaled_count(replace_char(t, "m"), 1000000)
        ELSE DigitsValue(first_digits(t))

\* _parse_subscriber_count
_parse_subscriber_count(text) ==
    LET t == count_normalise(text)
    IN  IF Contains(t, "k")
        THEN scaled_count(replace_char(replace_char(t, "k"), "subscribers"), 1000)
        ELSE IF Contains(t, "m")
        THEN scaled_count(replace_char(replace_char(t, "m"), "subscribers"), 1000000)
        ELSE DigitsValue(first_digits(t))

\* ---- the count fields of the structured client (telegram_scraper.py)

\* a Python int, as a value that can stand next to None
PyInt(n) == [int |-> n]

\* an attribute the provider's object does not have
Absent == [absent |-> TRUE]

\* getattr(obj, name, default), attr being the attribute's value or Absent
getattr(attr, default) == IF attr = Absent THEN default ELSE attr

\* 'subscribers_count': getattr(entity, 'participants_count', 0)
mt_subscribers_count(entity) == getattr(entity.participants_count, PyInt(0))

\* 'views': getattr(msg, 'views', 0)
mt_views(msg) == getattr(msg.views, PyInt(0))

\* ---- the view count of the serverless handler (latest.py)

\* int(s) for a str: an optional sign, then digits, single underscores
\* allowed between digits; ValueError for anything else
int_literal(s) ==
    LET signed == s # <<>> /\ Head(s) \in {"-", "+"}
        r == IF signed THEN Tail(s) ELSE s
        digs == replace_char(r, "_")
    IN  IF /\ digs # <<>>
           /\ \A i \in 1..Len(digs) : IsDigit(digs[i])
           /\ IsDigit(r[1]) /\ IsDigit(r[Len(r)])
           /\ \A i \in 1..(Len(r) - 1) : ~(r[i] = "_" /\ r[i + 1] = "_")
        THEN Returns(IF signed /\ Head(s) = "-"
                     THEN -DigitsValue(digs) ELSE DigitsValue(digs))
        ELSE Raises("ValueError")

\* `views` of parse_telegram_html for the text of the views span: no span
\* text, no match; int() of the text without spaces, 0 when it raises
handler_view_count(text) ==
    IF text = <<>> THEN 0
    ELSE LET v == int_literal(replace_char(strip(text), " "))
         IN  IF v.raised THEN 0 ELSE v.value

\* ---- inputs

CountChars == {"1", "4", ".", "K", "m", "-", "g", ","}

RECURSIVE CountStrings(_)
CountStrings(n) ==
    IF n = 0 THEN {<<>>}
    ELSE CountStrings(n - 1) \cup
         {Append(s, c) : s \in {q \in CountStrings(n - 1) : Len(q) = n - 1},
                         c \in CountChars}

ExampleTexts ==
    {<<"1", "K">>, <<"2", ".", "5", "M">>, <<"4", "3">>,
     <<"g", "a", "r", "b", "a", "g", "e">>}

\* the texts of the counter and views elements: a string, for the counter
\* element followed by the word of its type
CountTexts ==
    {s \o t : s \in CountStrings(MaxChars), t \in {<<>>, <<"subscribers">>}}
        \cup ExampleTexts

\* what the provider's attributes can hold
ProviderCounts == {Absent, None, PyInt(0), PyInt(1200)}

\* the entity and the message of the provider, by the attributes read
Providers ==
    {[participants_count |-> a, views |-> v] : a, v \in ProviderCounts}

outsideCount ==
    <<scrapeVars, cacheVars, postVars, pageVars, textVars, dateVars,
      latestVars, gatherVars,
      moreVars>>

InitCount ==
    /\ \/ /\ counter_text \in CountTexts
          /\ provider = None
       \/ /\ counter_text = <<>>
          /\ provider \in Providers
    /\ views = None
    /\ subscribers_count = None
    /\ count_pc = "start"
    /\ ScrapeInitial
    /\ dataFile = Missing
    /\ CacheInitial
    /\ PostsInitial
    /\ ToolsInitialExcept("count")

\* views = self._parse_view_count(views_text) of _parse_single_post
ParseViewCount ==
    /\ count_pc = "start"
    /\ provider = None
    /\ views' = PyInt(_parse_view_count(counter_text))
    /\ count_pc' = "views_parsed"
    /\ UNCHANGED <<counter_text, provider, subscribers_count>>
    /\ UNCHANGED outsideCount

\* subscribers = self._parse_subscriber_count(counter_text) of parse_channel_info
ParseSubscriberCount ==
    /\ count_pc = "start"
    /\ provider = None
    /\ subscribers_count' = PyInt(_parse_subscriber_count(counter_text))
    /\ count_pc' = "subscribers_parsed"
    /\ UNCHANGED <<counter_text, provider, views>>
    /\ UNCHANGED outsideCount

\* the 'views' field get_channel_posts builds for a message
GetChannelPostsViews ==
    /\ count_pc = "start"
    /\ provider # None
    /\ views' = mt_views(provider)
    /\ count_pc' = "post_built"
    /\ UNCHANGED <<counter_text, provider, subscribers_count>>
    /\ UNCHANGED outsideCount

\* the 'subscribers_count' field get_channel_info builds for a channel
GetChannelInfoSubscribers ==
    /\ count_pc = "start"
    /\ provider # None
    /\ subscribers_count' = mt_subscribers_count(provider)
    /\ count_pc' = "info_built"
    /\ UNCHANGED <<counter_text, provider, views>>
    /\ UNCHANGED outsideCount

\* `views` of handler.parse_telegram_html for the same views text
HandlerViews ==
    /\ count_pc = "start"
    /\ provider = None
    /\ views' = PyInt(handler_view_count(counter_text))
    /\ count_pc' = "handler_views"
    /\ UNCHANGED <<counter_text, provider, subscribers_count>>
    /\ UNCHANGED outsideCount

NextCount ==
    \/ ParseViewCount
    \/ ParseSubscriberCount
    \/ GetChannelPostsViews
    \/ GetChannelInfoSubscribers
    \/ HandlerViews

SpecCount == InitCount /\ [][NextCount]_vars

----------------------------------------------------------------------------
(* Text extraction of the serverless handler (api/channels/[username]/     *)
(* latest.py, parse_telegram_html), by regular expressions over the markup *)
(* of one message block; the markup is a sequence of characters and tags.  *)

DivOpen == "<div class=tgme_widget_message_text>"
DivClose == "</div>"
OtherTag == "<div class=tgme_widget_message_footer>"

BrTag == "<br/>"
AnchorOpen == "<a>"
AnchorClose == "</a>"

IsTag(tok) == tok \in {DivOpen, DivClose, OtherTag, BrTag, AnchorOpen, AnchorClose}

\* the markup of the children of a text container
RECURSIVE markup(_)
markup(children) ==
    IF children = <<>> THEN <<>>
    ELSE (IF IsTextNode(Head(children))
          THEN Head(children).string
          ELSE <<DivOpen>> \o markup(Head(children).children) \o <<DivClose>>)
         \o markup(Tail(children))

\* what follows the text container in a message block: the footer with the
\* view count, closed by its own </div> and by that of the message bubble
FooterMarkup == <<" ", OtherTag, "4", DivClose, " ", DivClose>>

\* post_html: the markup of the message block from its text container on
post_html(elem) ==
    (IF elem = None THEN <<>>
     ELSE <<DivOpen>> \o markup(elem.children) \o <<DivClose>>) \o FooterMarkup

AllSpaces(h, a, b) == \A t \in a..b : IsSpace(h[t])

\* text_pattern matches h from i: <div ..>\s*<div ..>(.*?)</div>\s*</div>,
\* the second <div> at k and the first </div> at j
NestedAt(h, i, k, j) ==
    /\ h[i] = DivOpen
    /\ h[k] = DivOpen
    /\ AllSpaces(h, i + 1, k - 1)
    /\ h[j] = DivClose
    /\ \E e \in (j + 1)..Len(h) : h[e] = DivClose /\ AllSpaces(h, j + 1, e - 1)

NoMatch == [matched |-> FALSE]
Match(group) == [matched |-> TRUE, group |-> group]

\* re.search(text_pattern, post_html, re.DOTALL): the leftmost match, its
\* group (.*?) as short as possible
search_nested(h) ==
    LET starts == {i \in 1..Len(h) :
                      \E k \in (i + 1)..Len(h) : \E j \in (k + 1)..Len(h) :
                          NestedAt(h, i, k, j)}
    IN  IF starts = {} THEN NoMatch
        ELSE LET i == CHOOSE a \in starts : \A b \in starts : a <= b
                 k == CHOOSE a \in (i + 1)..Len(h) :
                          h[a] = DivOpen /\ AllSpaces(h, i + 1, a - 1)
                 ends == {j \in (k + 1)..Len(h) : NestedAt(h, i, k, j)}
                 j == CHOOSE a \in ends : \A b \in ends : a <= b
             IN  Match(SubSeq(h, k + 1, j - 1))

\* re.search(text_pattern_single, post_html, re.DOTALL): <div ..>(.*?)</div>
search_single(h) ==
    LET starts == {i \in 1..Len(h) :
                      h[i] = DivOpen /\ \E j \in (i + 1)..Len(h) : h[j] = DivClose}
    IN  IF starts = {} THEN NoMatch
        ELSE LET i == CHOOSE a \in starts : \A b \in starts : a <= b
                 j == CHOOSE a \in (i + 1)..Len(h) :
                          h[a] = DivClose /\ \A b \in (i + 1)..(a - 1) : h[b] # DivClose
             IN  Match(SubSeq(h, i + 1, j - 1))

\* re.sub(r'<[^>]+>', '', text_html)
RECURSIVE remove_tags(_)
remove_tags(s) ==
    IF s = <<>> THEN <<>>
    ELSE IF IsTag(Head(s)) THEN remove_tags(Tail(s))
         ELSE <<Head(s)>> \o remove_tags(Tail(s))

\* re.sub(r'\s+', ' ', text)
RECURSIVE collapse_spaces(_)
collapse_spaces(s) ==
    IF Len(s) < 2 THEN s
    ELSE IF IsSpace(s[1]) /\ IsSpace(s[2]) THEN collapse_spaces(Tail(s))
         ELSE <<Head(s)>> \o collapse_spaces(Tail(s))

\* parse_telegram_html, from `text_pattern = ...` to `text = ''`
handler_extract_text(h) ==
    LET nested == search_nested(h)
        text_match == IF nested.matched THEN nested ELSE search_single(h)
    IN  IF ~text_match.matched THEN <<>>
        ELSE LET t == strip(collapse_spaces(remove_tags(text_match.group)))
             IN  IF Len(t) > 300 THEN SubSeq(t, 1, 300) \o <<".", ".", ".">> ELSE t

----------------------------------------------------------------------------
(* The text of one message container, by both implementations *)

\* the strings a container holds itself, around a nested one (<<>>: none)
OuterStrings == {<<>>, <<" ">>, <<"x">>}

\* the strings the innermost container holds
InnerStrings == {<<" ">>, <<"H", "i">>, <<" ", "H", "i", " ">>}

\* the children of a string: nothing for '', else the one string node
StringNodes(s) == IF s = <<>> THEN <<>> ELSE <<TextNode(s)>>

\* the text containers nested exactly n deep
RECURSIVE TextDivs(_)
TextDivs(n) ==
    IF n = 1 THEN {TextDiv(<<>>)} \cup {TextDiv(<<TextNode(s)>>) : s \in InnerStrings}
    ELSE {TextDiv(StringNodes(a) \o <<inner>> \o StringNodes(b)) :
             a \in OuterStrings, b \in OuterStrings, inner \in TextDivs(n - 1)}

\* the text containers of a message widget: none, or nested up to MaxNest deep
TextElems == {None} \cup UNION {TextDivs(n) : n \in 1..MaxNest}

outsideText ==
    <<scrapeVars, cacheVars, postVars, pageVars, countVars, dateVars,
      latestVars, gatherVars,
      moreVars>>

InitText ==
    /\ text_elem \in TextElems
    /\ post_text = <<>>
    /\ text_pc = "start"
    /\ ScrapeInitial
    /\ dataFile = Missing
    /\ CacheInitial
    /\ PostsInitial
    /\ ToolsInitialExcept("text")

\* the text of TelegramHTMLParser._parse_single_post
ParseSinglePostText ==
    /\ text_pc = "start"
    /\ post_text' = extract_text(text_elem)
    /\ text_pc' = "parsed"
    /\ UNCHANGED text_elem
    /\ UNCHANGED outsideText

\* the text of handler.parse_telegram_html
HandlerText ==
    /\ text_pc = "start"
    /\ post_text' = handler_extract_text(post_html(text_elem))
    /\ text_pc' = "handled"
    /\ UNCHANGED text_elem
    /\ UNCHANGED outsideText

NextText ==
    \/ ParseSinglePostText
    \/ HandlerText

SpecText == InitText /\ [][NextText]_vars

----------------------------------------------------------------------------
----------------------------------------------------------------------------
(* The channel description, by TelegramHTMLParser.parse_channel_info        *)
(* (backend/telegram_html_parser.py) and by handler.parse_telegram_html     *)
(* (api/channels/[username]/latest.py). The description element is the      *)
(* sequence of its children: strings, <br/> elements and <a> elements.      *)

\* the description element with its children
DescElem(children) == [children |-> children]

Br == [tag |-> "br", children |-> <<>>]
Anchor(children) == [tag |-> "a", children |-> children]

\* the markup of the children of the description element, as the handler's
\* regular expressions meet it
RECURSIVE desc_markup(_)
desc_markup(children) ==
    IF children = <<>> THEN <<>>
    ELSE LET n == Head(children)
         IN  (IF IsTextNode(n) THEN n.string
              ELSE IF n.tag = "br" THEN <<BrTag>>
              ELSE <<AnchorOpen>> \o desc_markup(n.children) \o <<AnchorClose>>)
                 \o desc_markup(Tail(children))

\* re.sub(r'<br\s*/?>', ' ', description)
RECURSIVE br_to_space(_)
br_to_space(s) ==
    IF s = <<>> THEN <<>>
    ELSE <<IF Head(s) = BrTag THEN " " ELSE Head(s)>> \o br_to_space(Tail(s))

\* parse_channel_info: desc_elem.get_text(strip=True) if desc_elem else ''
parser_description(elem) ==
    IF elem = None THEN <<>> ELSE get_text(elem.children)

\* parse_telegram_html, from `desc_match = ...` to `description = ''`
handler_description(elem) ==
    IF elem = None THEN <<>>
    ELSE strip(collapse_spaces(remove_tags(br_to_space(desc_markup(elem.children)))))

\* ---- inputs

\* the children a description element is made of
DescNodes ==
    {TextNode(<<"a">>), TextNode(<<" ", "b">>), Br, Anchor(<<TextNode(<<"c">>)>>)}

RECURSIVE DescChildren(_)
DescChildren(n) ==
    IF n = 0 THEN {<<>>}
    ELSE DescChildren(n - 1) \cup
         {Append(cs, c) : cs \in {q \in DescChildren(n - 1) : Len(q) = n - 1},
                          c \in DescNodes}

outsideDesc ==
    <<scrapeVars, cacheVars, postVars, toolVars, staleVars, delayVars, blockVars,
      sendVars>>

InitDesc ==
    /\ desc_elem \in {None} \cup {DescElem(cs) : cs \in DescChildren(MaxLen)}
    /\ description = <<>>
    /\ desc_pc = "start"
    /\ ScrapeInitial
    /\ dataFile = Missing
    /\ CacheInitial
    /\ PostsInitial
    /\ ToolsInitialExcept("desc")

\* the description of TelegramHTMLParser.parse_channel_info
ParseChannelInfoDescription ==
    /\ desc_pc = "start"
    /\ description' = parser_description(desc_elem)
    /\ desc_pc' = "parsed"
    /\ UNCHANGED desc_elem
    /\ UNCHANGED outsideDesc

\* the description of handler.parse_telegram_html
HandlerDescription ==
    /\ desc_pc = "start"
    /\ description' = handler_description(desc_elem)
    /\ desc_pc' = "handled"
    /\ UNCHANGED desc_elem
    /\ UNCHANGED outsideDesc

NextDesc ==
    \/ ParseChannelInfoDescription
    \/ HandlerDescription

SpecDesc == InitDesc /\ [][NextDesc]_vars

----------------------------------------------------------------------------
(* The post selection of handler.parse_telegram_html                        *)
(* (api/channels/[username]/latest.py): the message blocks re.findall       *)
(* yields, one for each message container of the page in page order, each   *)
(* with the text and the datetime attribute its regular expressions find.   *)

MaxBlocks == 21    \* message containers on a page: 0..MaxBlocks

\* message_blocks[:20]
HandlerBlockLimit == 20

\* a message container: its post id, the text extracted from it ('' without
\* a text container) and the datetime attribute of its <time> element
Block(id, text, date) == [id |-> id, text |-> text, date |-> date]

\* the loop over message_blocks[:20]: a block without text or without a
\* date is skipped, the others are appended to `posts`
RECURSIVE handler_posts(_)
handler_posts(blocks) ==
    IF blocks = <<>> THEN <<>>
    ELSE LET b == Head(blocks)
         IN  (IF b.text # <<>> /\ HasDate(b) THEN <<b>> ELSE <<>>)
                 \o handler_posts(Tail(blocks))

\* parse_telegram_html from `for post_id, post_html in message_blocks[:20]`
\* to `latest = posts[0]`; None when `posts` is empty
handler_latest_post(message_blocks) ==
    LET posts_found == handler_posts(Take(message_blocks, HandlerBlockLimit))
    IN  IF posts_found = <<>> THEN None
        ELSE Head(SortByDateDesc(posts_found))

\* ---- inputs

\* a page of n containers whose p-th container is the newest post, the
\* others being older the higher they stand; container q, if any, lacks its
\* text (gap = "text") or its <time> element (gap = "date")
PageOf(n, p, q, gap) ==
    [i \in 1..n |->
        Block(i,
              IF i = q /\ gap = "text" THEN <<>> ELSE <<"x">>,
              IF i = q /\ gap = "date" THEN NoDate
              ELSE IsoDate(IF i = p THEN n + 1 ELSE i, 0))]

Pages ==
    {<<>>} \cup
    {PageOf(n, p, q, gap) :
        n \in 1..MaxBlocks, p \in 1..MaxBlocks, q \in {0, 1, MaxBlocks},
        gap \in {"text", "date"}}

outsideBlocks ==
    <<scrapeVars, cacheVars, postVars, toolVars, staleVars, delayVars, descVars,
      sendVars>>

InitBlocks ==
    /\ page_blocks \in Pages
    /\ handler_latest = None
    /\ blocks_pc = "fetched"
    /\ ScrapeInitial
    /\ dataFile = Missing
    /\ CacheInitial
    /\ PostsInitial
    /\ ToolsInitialExcept("blocks")

\* parse_telegram_html on the fetched page
ParseTelegramHtml ==
    /\ blocks_pc = "fetched"
    /\ handler_latest' = handler_latest_post(page_blocks)
    /\ blocks_pc' = "parsed"
    /\ UNCHANGED page_blocks
    /\ UNCHANGED outsideBlocks

NextBlocks ==
    \/ ParseTelegramHtml

SpecBlocks == InitBlocks /\ [][NextBlocks]_vars

(* The relative-time formatters: format_post_date (backend/api_server.py)   *)
(* and handler.format_date (api/channels/[username]/latest.py). Points in   *)
(* time are whole seconds since midnight of day 0, UTC.                     *)

MaxDay == 2        \* the dates and the clock lie in days 0..MaxDay

SecondsPerHour == 3600
SecondsPerMinute == 60
SecondsPerDay == 24 * SecondsPerHour

\* The 'date' field of a stored post: None, '', a text that is no timestamp,
\* a number, or a string DDDD-MM-DDTHH:MM:SS followed by Z or +HH:00, held as
\* the day, hour, minute and second it spells and its suffix.
EmptyString == [kind |-> "str", chars |-> <<>>]
NotATimestamp == [kind |-> "str", chars |-> <<"s", "o", "o", "n">>]
IsoString(day, hour, minute, second, suffix) ==
    [kind |-> "iso", day |-> day, hour |-> hour, minute |-> minute,
     second |-> second, suffix |-> suffix]

\* date_str.replace('Z', '+00:00'), on the suffix of an ISO string
replace_Z(suffix) == IF suffix = "Z" THEN "+00:00" ELSE suffix

\* the hours of a UTC offset +HH:00
utcoffset(suffix) == IF suffix = "+03:00" THEN 3 ELSE 0

\* datetime.fromisoformat(s) for a string whose suffix is an offset: the
\* point in time, ValueError for a string that is no ISO timestamp or spells
\* a field out of range
fromisoformat(s) ==
    IF s.kind # "iso" THEN Raises("ValueError")
    ELSE IF s.hour > 23 \/ s.minute > 59 \/ s.second > 59 THEN Raises("ValueError")
    ELSE Returns(((s.day * 24 + s.hour - utcoffset(s.suffix)) * 60 + s.minute) * 60
                 + s.second)

\* a timedelta of e seconds, normalised as Python does: 0 <= seconds < 86400
\* and days negative for a negative e
timedelta(e) == [days |-> e \div SecondsPerDay, seconds |-> e % SecondsPerDay]

\* f"{n}d ago", f"{n}h ago", f"{n}m ago"
Ago(n, unit) == <<n, unit, " ago">>

JustNow == <<"Just now">>
Unknown == <<"Unknown">>

\* `not date_str`
not_date_str(s) == s = None \/ s = EmptyString \/ s = PyInt(0)

\* the try block of both formatters, from the parsed date on
relative(post_date, t) ==
    LET diff == timedelta(t - post_date)
    IN  IF diff.days > 0 THEN Ago(diff.days, "d")
        ELSE IF diff.seconds > SecondsPerHour
             THEN Ago(diff.seconds \div SecondsPerHour, "h")
        ELSE IF diff.seconds > SecondsPerMinute
             THEN Ago(diff.seconds \div SecondsPerMinute, "m")
        ELSE JustNow

\* format_post_date(date_str) of api_server.py at time t
format_post_date(s, t) ==
    IF not_date_str(s) THEN Unknown
    ELSE IF "int" \in DOMAIN s THEN Unknown    \* int has no replace
    ELSE LET post_date ==
                 fromisoformat(IF s.kind = "iso"
                               THEN [s EXCEPT !.suffix = replace_Z(@)] ELSE s)
         IN  IF post_date.raised THEN Unknown
             ELSE relative(post_date.value, t)

\* handler.format_date(date_str) of latest.py at time t
format_date(s, t) ==
    IF not_date_str(s) THEN Unknown
    ELSE IF "int" \in DOMAIN s THEN Unknown
    ELSE LET post_date ==
                 fromisoformat(IF s.kind = "iso"
                               THEN [s EXCEPT !.suffix = replace_Z(@)] ELSE s)
         IN  IF post_date.raised THEN Unknown
             ELSE relative(post_date.value, t)

\* ---- inputs

\* the fields the timestamps are spelled with; hour 24 and second 60 are out
\* of range
DayHours == {0, 1, 23, 24}
Minutes == {0, 1, 59}
Seconds == {0, 1, 59, 60}
Suffixes == {"Z", "+00:00", "+03:00"}

DateStrings ==
    {None, EmptyString, NotATimestamp, PyInt(1700000000)} \cup
    {IsoString(d, h, m, sec, x) :
        d \in 0..MaxDay, h \in DayHours, m \in Minutes, sec \in Seconds,
        x \in Suffixes}

\* the times of the call: around midnight of the last day
Clocks == {MaxDay * SecondsPerDay + sec : sec \in {0, 1, 61}}

outsideDate ==
    <<scrapeVars, cacheVars, postVars, pageVars, countVars, textVars,
      latestVars, gatherVars,
      moreVars>>

InitDate ==
    /\ date_str \in DateStrings
    /\ clock \in Clocks
    /\ formatted_date = <<>>
    /\ date_pc = "start"
    /\ ScrapeInitial
    /\ dataFile = Missing
    /\ CacheInitial
    /\ PostsInitial
    /\ ToolsInitialExcept("date")

\* "formatted_date": format_post_date(latest_post.get('date')) of
\* get_channel_latest_post
FormatPostDate ==
    /\ date_pc = "start"
    /\ formatted_date' = format_post_date(date_str, clock)
    /\ date_pc' = "format_post_date"
    /\ UNCHANGED <<date_str, clock>>
    /\ UNCHANGED outsideDate

\* "formatted_date": self.format_date(latest_post.get('date')) of do_GET
FormatDate ==
    /\ date_pc = "start"
    /\ formatted_date' = format_date(date_str, clock)
    /\ date_pc' = "format_date"
    /\ UNCHANGED <<date_str, clock>>
    /\ UNCHANGED outsideDate

NextDate ==
    \/ FormatPostDate
    \/ FormatDate

SpecDate == InitDate /\ [][NextDate]_vars

----------------------------------------------------------------------------
(* The latest-post endpoint: get_channel_latest_post (backend/api_server.py) *)
(* and handler.do_GET (api/channels/[username]/latest.py), over the states   *)
(* of channels_data.json.                                                    *)

\* a file that exists and cannot be opened or is no JSON text
Unreadable == [exists |-> TRUE, unreadable |-> TRUE]

\* d.get(key, default)
dict_get(d, key, default) == IF key \in DOMAIN d THEN d[key] ELSE default

\* a post as get_channel_posts or _parse_single_post stores it
StoredPost(v, d) ==
    [id |-> 123, text |-> "text", views |-> v, date |-> d,
     link |-> "https://t.me/vanyashuvalov/123"]

\* f"{x:.1f}" for the float x >= 0: x to the nearest tenth, ties to even, as
\* the whole part, the point and the tenth
format_1f(x) ==
    LET p == LimbsToBits(MulSmall(BitsToLimbs(x.mant), 10, 0))
        k == -x.exp
        whole == IF k <= 0 THEN FromBits(p \o Zeros(-k))
                 ELSE IF k >= Len(p) THEN 0
                 ELSE FromBits(SubSeq(p, 1, Len(p) - k))
        frac == IF k <= 0 THEN <<>>
                ELSE IF k > Len(p) THEN Zeros(k - Len(p)) \o p
                ELSE SubSeq(p, Len(p) - k + 1, Len(p))
        up == /\ frac # <<>>
              /\ frac[1] = 1
              /\ ((\E i \in 2..Len(frac) : frac[i] = 1) \/ whole % 2 = 1)
        tenths == IF up THEN whole + 1 ELSE whole
    IN  <<tenths \div 10, ".", tenths % 10>>

\* format_number(num): `num >= 1000000` raises TypeError for None
format_number(num) ==
    IF num = None THEN Raises("TypeError")
    ELSE IF num.int >= 1000000
         THEN Returns(Append(format_1f(float_of_decimal(num.int, 6)), "M"))
    ELSE IF num.int >= 1000
         THEN Returns(Append(format_1f(float_of_decimal(num.int, 3)), "K"))
    ELSE Returns(<<num.int>>)

\* username.title()
title_of(u) == IF u = "vanya_knopochkin" THEN "Vanya_Knopochkin" ELSE "Vanyashuvalov"

\* "title" of the mock payloads; the Cyrillic texts are transliterated
mock_title(u) == IF u = "vanyashuvalov" THEN "Vanya Knopochkin" ELSE title_of(u)

\* the "latest_post" of the mock payloads; its date is datetime.now()
MockPost(u, nowT) ==
    [text |-> "moskva gaz sorevnovaniya po schetu v ume", views |-> PyInt(43),
     date |-> [kind |-> "now", at |-> nowT], formatted_date |-> <<"2h ago">>,
     formatted_views |-> <<43>>, link |-> <<"https://t.me/", u, "/123">>]

\* get_mock_latest_post(username)
get_mock_latest_post(u, nowT) ==
    [channel |-> [username |-> u, title |-> mock_title(u), avatar_url |-> None,
                  description |-> "Product Designer & Creative",
                  verified |-> FALSE],
     latest_post |-> MockPost(u, nowT),
     last_updated |-> [kind |-> "now", at |-> nowT],
     mock_data |-> TRUE]

\* the final fallback of do_GET
handler_mock(u, nowT) ==
    [channel |-> [username |-> u, title |-> mock_title(u),
                  description |-> "Product Designer & Creative",
                  verified |-> FALSE],
     latest_post |-> MockPost(u, nowT),
     mock_data |-> TRUE]

\* the answer FastAPI gives when the endpoint function raises
InternalServerError == [status_code |-> 500]

\* `if not channel_data or not channel_data.get('success')`
not_available(channel_data) ==
    \/ Falsy(channel_data)
    \/ "success" \notin DOMAIN channel_data
    \/ ~channel_data.success

\* "formatted_date" and "formatted_views" and the fields read with them
latest_post_fields(latest_post, nowT, fmt_date, fmt_number) ==
    [text |-> dict_get(latest_post, "text", ""),
     views |-> dict_get(latest_post, "views", PyInt(0)),
     date |-> dict_get(latest_post, "date", None),
     formatted_date |-> fmt_date,
     formatted_views |-> fmt_number.value,
     link |-> dict_get(latest_post, "link", None)]

\* get_channel_latest_post(username) once get_channel_data has returned
latest_of(channel_data, u, nowT) ==
    IF not_available(channel_data) THEN get_mock_latest_post(u, nowT)
    ELSE LET stored == dict_get(channel_data, "posts", <<>>) IN
         IF stored = <<>> THEN get_mock_latest_post(u, nowT)
         ELSE LET latest_post == stored[1]
                  channel_info == dict_get(channel_data, "channel_info", EmptyDict)
                  formatted_views ==
                      format_number(dict_get(latest_post, "views", PyInt(0)))
              IN  IF channel_info = None \/ formatted_views.raised
                  THEN InternalServerError
                  ELSE [channel |->
                           [username |-> u,
                            title |-> dict_get(channel_info, "title", u),
                            description |-> dict_get(channel_info, "description", ""),
                            verified |-> dict_get(channel_info, "verified", FALSE),
                            source |-> dict_get(channel_data, "parser",
                                          dict_get(channel_data, "source", "unknown"))],
                        latest_post |->
                           latest_post_fields(latest_post, nowT,
                               format_post_date(dict_get(latest_post, "date", None), nowT),
                               formatted_views),
                        last_updated |-> dict_get(channel_data, "scraped_at", None)]

\* do_GET from `# Fallback to static JSON` on: any exception of the try block
\* leads to the mock payload
static_or_mock(f, u, nowT) ==
    IF ~f.exists \/ f = Unreadable THEN handler_mock(u, nowT)
    ELSE LET channel_data == dict_get(f.doc, u, None) IN
         IF not_available(channel_data) THEN handler_mock(u, nowT)
         ELSE LET stored == dict_get(channel_data, "posts", <<>>) IN
              IF stored = <<>> THEN handler_mock(u, nowT)
              ELSE LET latest_post == stored[1]
                       channel_info == dict_get(channel_data, "channel_info", EmptyDict)
                       formatted_views ==
                           format_number(dict_get(latest_post, "views", PyInt(0)))
                   IN  IF channel_info = None \/ formatted_views.raised
                       THEN handler_mock(u, nowT)
                       ELSE [channel |->
                                [username |-> u,
                                 title |-> dict_get(channel_info, "title", u),
                                 description |->
                                     dict_get(channel_info, "description", ""),
                                 verified |->
                                     dict_get(channel_info, "verified", FALSE)],
                             latest_post |->
                                latest_post_fields(latest_post, nowT,
                                    format_date(dict_get(latest_post, "date", None), nowT),
                                    formatted_views),
                             source |-> "static_json"]

\* ---- inputs

\* what the provider and the parser store in 'views' and 'date'
StoredViews == {None, PyInt(43), PyInt(1150)}
StoredDates == {None, IsoString(MaxDay - 1, 23, 59, 59, "+00:00")}

\* the 'posts' lists of an entry
RECURSIVE StoredPostLists(_, _)
StoredPostLists(n, vs) ==
    IF n = 0 THEN {<<>>}
    ELSE StoredPostLists(n - 1, vs) \cup
         {Append(ps, StoredPost(v, d)) :
             ps \in {q \in StoredPostLists(n - 1, vs) : Len(q) = n - 1},
             v \in vs, d \in StoredDates}

\* the entries an acquisition run stores for a channel: the structured
\* client's, whose views can be None, and the markup parser's
StoredEntries ==
    {MtEntry(i, ps) : i \in {None, MtInfo},
                      ps \in StoredPostLists(MaxPosts, StoredViews)}
        \cup {HtmlEntry(i, ps) : i \in {None, HtmlInfo},
                                 ps \in StoredPostLists(MaxPosts, StoredViews \ {None})}
        \cup {[HtmlFetchFailed EXCEPT !.posts = <<>>]}

\* channels_data.json: missing, unreadable, without the channel, with it
LatestFiles ==
    {Missing, Unreadable, File(EmptyDict)}
        \cup {File("vanyashuvalov" :> e) : e \in StoredEntries}

\* the payload parse_telegram_html builds from the live page
LivePayload(u) ==
    [channel |-> [username |-> u, title |-> u, description |-> "",
                  verified |-> FALSE],
     latest_post |-> [text |-> "text", views |-> PyInt(43),
                      date |-> IsoString(MaxDay - 1, 23, 59, 59, "+00:00"),
                      formatted_date |-> JustNow, formatted_views |-> <<43>>,
                      link |-> <<"https://t.me/", u, "/123">>],
     source |-> "live_html"]

\* the time of the request
RequestTime == MaxDay * SecondsPerDay

\* what the cache of the API process holds for the channel when the request
\* arrives: nothing, or an entry loaded from an earlier state of the file
CachedEntries ==
    {MtEntry(MtInfo, <<StoredPost(PyInt(43), None)>>),
     [HtmlFetchFailed EXCEPT !.posts = <<>>]}

CacheAges == {1, cache_ttl}

outsideLatest ==
    <<scrapeButFile, postVars, pageVars, countVars, textVars, dateVars, gatherVars,
      moreVars>>

InitLatest ==
    /\ dataFile \in LatestFiles
    /\ request_username \in Usernames
    /\ live_data \in {None, LivePayload(request_username)}
    /\ latest_payload = None
    /\ latest_pc = "start"
    /\ now = RequestTime
    /\ ticks = 0
    /\ lastOp = NoOp
    /\ \/ /\ heap = <<>>
          /\ _cache = EmptyDict
          /\ _timestamps = EmptyDict
          /\ lastSet = [k \in Keys |-> NeverSet]
       \/ \E e \in CachedEntries : \E age \in CacheAges :
             LET key == cache_key(request_username) IN
             /\ heap = <<e>>
             /\ _cache = (key :> 1)
             /\ _timestamps = (key :> (now - age))
             /\ lastSet = [k \in Keys |->
                              IF k = key
                              THEN [ref |-> 1, at |-> now - age, content |-> e]
                              ELSE NeverSet]
    /\ ScrapeInitial
    /\ PostsInitial
    /\ ToolsInitialExcept("latest")

\* GET /api/channels/{username}/latest of api_server.py: get_channel_data,
\* with its cache lookup, load and cache.set, then the payload
GetChannelLatestPost ==
    /\ latest_pc = "start"
    /\ LET key == cache_key(request_username)
           g == DataCache_get(_cache, _timestamps, key, now)
           all_data == load_channels_data(dataFile)
           o == Len(heap) + 1
       IN  IF IsTruthyRef(heap, g.result)
           THEN /\ _cache' = g.cache
                /\ _timestamps' = g.timestamps
                /\ lastOp' = Observed("get_channel_data", key, g.result)
                /\ latest_payload' = latest_of(heap[g.result], request_username, now)
                /\ UNCHANGED <<heap, lastSet>>
           ELSE IF request_username \in DOMAIN all_data
           THEN /\ heap' = Append(heap, all_data[request_username])
                /\ IF Truthy(all_data[request_username])
                   THEN LET s == DataCache_set(g.cache, g.timestamps, key, o, now) IN
                        /\ _cache' = s.cache
                        /\ _timestamps' = s.timestamps
                        /\ lastSet' = [lastSet EXCEPT ![key] =
                               [ref |-> o, at |-> now,
                                content |-> all_data[request_username]]]
                   ELSE /\ _cache' = g.cache
                        /\ _timestamps' = g.timestamps
                        /\ UNCHANGED lastSet
                /\ lastOp' = Observed("get_channel_data", key, o)
                /\ latest_payload' =
                       latest_of(all_data[request_username], request_username, now)
           ELSE /\ _cache' = g.cache
                /\ _timestamps' = g.timestamps
                /\ lastOp' = Observed("get_channel_data", key, NoneRef)
                /\ latest_payload' = latest_of(None, request_username, now)
                /\ UNCHANGED <<heap, lastSet>>
    /\ latest_pc' = "get_channel_latest_post"
    /\ UNCHANGED <<request_username, live_data, now, ticks, dataFile>>
    /\ UNCHANGED outsideLatest

\* handler.do_GET of latest.py: the live page first, then the file, then the
\* mock payload
DoGet ==
    /\ latest_pc = "start"
    /\ latest_payload' =
           IF live_data # None THEN live_data
           ELSE static_or_mock(dataFile, request_username, now)
    /\ latest_pc' = "do_GET"
    /\ UNCHANGED <<request_username, live_data, dataFile>>
    /\ UNCHANGED cacheVars
    /\ UNCHANGED outsideLatest

NextLatest ==
    \/ GetChannelLatestPost
    \/ DoGet

SpecLatest == InitLatest /\ [][NextLatest]_vars

----------------------------------------------------------------------------
----------------------------------------------------------------------------
(* The read path against a file that acquisition runs rewrite:              *)
(* get_channel_data (backend/api_server.py) and the dumps of                *)
(* channels_data.json (backend/unified_scraper.py, telegram_scraper.py).    *)

MaxRewrites == 2   \* rewrites of channels_data.json in one behaviour

\* what a dump leaves in channels_data.json: a channel map, or, while the
\* file is open for writing, a text json.load refuses
RewrittenFiles == (CacheFileStates \ {Missing}) \cup {Unreadable}

\* what get_channel_data(u) returns: the cached dict when the cache has a
\* truthy one, else the entry of the file as it is now, None without one
get_channel_data(c, t, h, f, u, nowT) ==
    LET g == DataCache_get(c, t, cache_key(u), nowT)
    IN  IF IsTruthyRef(h, g.result) THEN h[g.result]
        ELSE dict_get(load_channels_data(f), u, None)

outsideStale ==
    <<scrapeButFile, postVars, toolVars, delayVars, descVars, blockVars, sendVars>>

InitStale ==
    /\ CacheInitial
    /\ ScrapeInitial
    /\ PostsInitial
    /\ ToolsInitialExcept("stale")
    /\ dataFile \in CacheFileStates
    /\ file_log = <<[at |-> 0, file |-> dataFile]>>

\* an acquisition run dumps its results: open(output_file, 'w') and json.dump
RewriteFile ==
    /\ Len(file_log) <= MaxRewrites
    /\ \E f \in RewrittenFiles \ {dataFile} :
          /\ dataFile' = f
          /\ file_log' = Append(file_log, [at |-> now, file |-> f])
    /\ UNCHANGED cacheVars
    /\ UNCHANGED outsideStale

NextStale ==
    \/ GetChannelDataHit
    \/ GetChannelDataLoad
    \/ Tick
    \/ RewriteFile

SpecStale == InitStale /\ [][NextStale]_vars

----------------------------------------------------------------------------
(* The channel loop of scrape_all_channels on the clock of the event loop   *)
(* (backend/telegram_scraper.py and backend/telegram_html_parser.py: the    *)
(* two loops are the same code). scrape_channel returns a dict for every    *)
(* outcome of its fetches, so the except clause of the loop is never taken. *)

\* await asyncio.sleep(2)
InterChannelDelay == 2

\* the seconds one scrape_channel call can take: at once, a second, the
\* ClientTimeout(total=30) of the markup parser
ScrapeDurations == {0, 1, 30}

\* the seconds by which the event loop resumes a sleeper late
SleepLags == {0, 1}

\* a delay that is awaited after a successful scrape only
delay_after_success_only(success) == IF success THEN InterChannelDelay ELSE 0

\* the delay the loop body awaits after scrape_channel has returned
delay_after(success) == InterChannelDelay

outsideDelay ==
    <<scrapeVars, cacheVars, postVars, toolVars, staleVars, descVars, blockVars,
      sendVars>>

InitDelay ==
    /\ loop_pc = "fetch"
    /\ loop_idx = 1
    /\ loop_clock \in {0, 1}
    /\ fetch_started = <<>>
    /\ scrape_ended = <<>>
    /\ ScrapeInitial
    /\ dataFile = Missing
    /\ CacheInitial
    /\ PostsInitial
    /\ ToolsInitialExcept("delay")

\* for channel_username in self.config.channels: the call of scrape_channel
StartScrape ==
    /\ loop_pc = "fetch"
    /\ loop_idx <= Len(channels)
    /\ fetch_started' = Append(fetch_started, loop_clock)
    /\ loop_pc' = "scraping"
    /\ UNCHANGED <<loop_idx, loop_clock, scrape_ended>>
    /\ UNCHANGED outsideDelay

\* result = await self.scrape_channel(channel_username); results[...] = result
ScrapeReturns ==
    /\ loop_pc = "scraping"
    /\ \E d \in ScrapeDurations : \E ok \in BOOLEAN :
          /\ loop_clock' = loop_clock + d
          /\ scrape_ended' = Append(scrape_ended, [at |-> loop_clock + d, success |-> ok])
    /\ loop_pc' = "sleeping"
    /\ UNCHANGED <<loop_idx, fetch_started>>
    /\ UNCHANGED outsideDelay

\* await asyncio.sleep(2), then the next iteration
Sleep ==
    /\ loop_pc = "sleeping"
    /\ \E lag \in SleepLags :
          loop_clock' = loop_clock + delay_after(scrape_ended[loop_idx].success) + lag
    /\ loop_idx' = loop_idx + 1
    /\ loop_pc' = "fetch"
    /\ UNCHANGED <<fetch_started, scrape_ended>>
    /\ UNCHANGED outsideDelay

\* the loop is exhausted: the results are dumped
LoopEnds ==
    /\ loop_pc = "fetch"
    /\ loop_idx > Len(channels)
    /\ loop_pc' = "done"
    /\ UNCHANGED <<loop_idx, loop_clock, fetch_started, scrape_ended>>
    /\ UNCHANGED outsideDelay

NextDelay ==
    \/ StartScrape
    \/ ScrapeReturns
    \/ Sleep
    \/ LoopEnds

SpecDelay == InitDelay /\ [][NextDelay]_vars

----------------------------------------------------------------------------
(* The responses of handler.do_GET (api/channels/[username]/latest.py):     *)
(* send_json is called inside the try block of the live source and inside   *)
(* the try block of the static source, and once more for the mock payload.  *)

\* how far a call of send_json gets: end_headers() raises while it flushes
\* the status line and the headers, wfile.write raises after they are out,
\* or the whole response is written
SendOutcomes == {"none", "headers", "complete"}

\* one call of send_json
Sending(source, reached) == [source |-> source, reached |-> reached]

\* do_GET finds a successful entry with posts in channels_data.json and
\* builds the static payload without an exception
static_usable(f, u, nowT) == "mock_data" \notin DOMAIN static_or_mock(f, u, nowT)

\* the calls of send_json that do_GET makes, in order; o[k] is how far the
\* k-th source gets if its payload is sent. An exception of send_json inside
\* a try block is swallowed by its except clause and the next source follows.
do_GET_sends(has_live, has_static, o) ==
    IF has_live /\ o[1] = "complete" THEN <<Sending("live", o[1])>>
    ELSE (IF has_live THEN <<Sending("live", o[1])>> ELSE <<>>)
         \o (IF has_static
             THEN IF o[2] = "complete"
                  THEN <<Sending("static", o[2])>>
                  ELSE <<Sending("static", o[2]), Sending("mock", o[3])>>
             ELSE <<Sending("mock", o[3])>>)

outsideSend ==
    <<scrapeButFile, cacheVars, postVars, pageVars, countVars, textVars, dateVars,
      gatherVars, staleVars, delayVars, descVars, blockVars, latest_payload,
      latest_pc>>

InitSend ==
    /\ dataFile \in LatestFiles
    /\ request_username \in Usernames
    /\ live_data \in {None, LivePayload(request_username)}
    /\ latest_payload = None
    /\ latest_pc = "idle"
    /\ get_pc = "do_GET"
    /\ sent = <<>>
    /\ ScrapeInitial
    /\ CacheInitial
    /\ PostsInitial
    /\ TextInitial /\ PageInitial /\ CountInitial /\ DateInitial /\ GatherInitial
    /\ StaleInitial /\ DelayInitial /\ DescInitial /\ BlocksInitial

\* handler.do_GET with its calls of send_json; the request ends "raised"
\* when the send of the mock payload, which no try block guards, raises
DoGetSend ==
    /\ get_pc = "do_GET"
    /\ \E o \in [1..3 -> SendOutcomes] :
          sent' = do_GET_sends(live_data # None,
                               static_usable(dataFile, request_username, RequestTime),
                               o)
    /\ get_pc' = IF sent'[Len(sent')].reached = "complete" THEN "done" ELSE "raised"
    /\ UNCHANGED <<request_username, live_data, dataFile>>
    /\ UNCHANGED outsideSend

NextSend ==
    \/ DoGetSend

SpecSend == InitSend /\ [][NextSend]_vars

(* One call of TelegramScraper.scrape_channel (backend/telegram_scraper.py): *)
(* the coroutines get_channel_info and get_channel_posts run as two tasks of *)
(* asyncio.gather; a step is the resumption of a task at the await it is     *)
(* suspended at, with what the provider answers.                             *)

PyStr(s) == [str |-> s]

\* what client.get_entity returns: a User, or a Channel by the attributes
\* get_channel_info reads
UserEntity == [type |-> "User"]
ChannelEntity(about, count, photo) ==
    [type |-> "Channel", title |-> "title", about |-> about,
     participants_count |-> count, photo |-> photo]

ChannelEntities ==
    {ChannelEntity(a, c, p) : a \in {Absent, None, PyStr("about")},
                              c \in {None, PyInt(1200)}, p \in BOOLEAN}

Entities == {UserEntity} \cup ChannelEntities

\* the exceptions a call of the client raises
ProviderErrors == {"ChannelPrivateError", "UsernameNotOccupiedError", "FloodWaitError"}

\* a message of the provider: text is '' for a message without text
Message(id, text, media, v) == [id |-> id, text |-> text, media |-> media, views |-> v]

\* what client.get_messages returns: message i of the list has id i
RECURSIVE MessageLists(_)
MessageLists(n) ==
    IF n = 0 THEN {<<>>}
    ELSE MessageLists(n - 1) \cup
         {Append(ms, Message(n, t, media, v)) :
             ms \in {q \in MessageLists(n - 1) : Len(q) = n - 1},
             t \in {"", "text"}, media \in BOOLEAN, v \in {None, PyInt(43)}}

\* channel_info = {...} of get_channel_info, before the avatar; reading an
\* attribute the entity lacks raises AttributeError
channel_info_of(e, u) ==
    IF e.about = Absent THEN Raises("AttributeError")
    ELSE Returns([title |-> e.title, username |-> u,
                  description |-> IF e.about = None THEN "" ELSE e.about.str,
                  subscribers_count |-> mt_subscribers_count(e),
                  avatar_path |-> None])

\* str(avatar_path)
avatar_path_of(u) == <<"data/telegram", u, "_avatar.jpg">>

\* post_data of get_channel_posts
post_data(m, u) ==
    [id |-> m.id, text |-> m.text, views |-> mt_views(m), link |-> <<u, m.id>>]

\* the loop of get_channel_posts: only messages with text or media
RECURSIVE posts_of(_, _)
posts_of(ms, u) ==
    IF ms = <<>> THEN <<>>
    ELSE IF Head(ms).text # "" \/ Head(ms).media
         THEN <<post_data(Head(ms), u)>> \o posts_of(Tail(ms), u)
         ELSE posts_of(Tail(ms), u)

\* the except clauses of get_channel_info: return None
get_channel_info_except == Returns(None)

\* the except clause of get_channel_posts: return []
get_channel_posts_except == Returns(<<>>)

\* gather returns when one task is done, as asyncio.wait(FIRST_COMPLETED)
joined_first_completed == info_pc = "done" \/ posts_pc = "done"

\* asyncio.gather returns when both tasks are done
joined == info_pc = "done" /\ posts_pc = "done"

\* the result of a task as gather sees it; a task that is not done has none
task_result(task) == IF task = None THEN Raises("InvalidStateError") ELSE task

\* `if isinstance(channel_info, Exception): channel_info = None`
gathered_channel_info(task) ==
    IF task_result(task).raised THEN None ELSE task.value

\* `if isinstance(posts, Exception): posts = []`
gathered_posts(task) ==
    IF task_result(task).raised THEN <<>> ELSE task.value

\* the channel scrape_channel is called for
gather_channel == channels[1]

outsideGather ==
    <<scrapeVars, cacheVars, postVars, pageVars, countVars, textVars, dateVars,
      latestVars,
      moreVars>>

\* scrape_channel has created both coroutines and awaits gather; each task has
\* run to its first await
InitGather ==
    /\ gather_pc = "gathering"
    /\ info_pc = "get_entity"
    /\ posts_pc = "get_entity"
    /\ info_entity = None
    /\ info_task = None
    /\ posts_task = None
    /\ info_failed = FALSE
    /\ posts_failed = FALSE
    /\ completed = <<>>
    /\ gathered = None
    /\ ScrapeInitial
    /\ dataFile = Missing
    /\ CacheInitial
    /\ PostsInitial
    /\ ToolsInitialExcept("gather")

\* get_channel_info: client.get_entity raises
InfoGetEntityRaises ==
    /\ info_pc = "get_entity"
    /\ \E e \in ProviderErrors : info_task' = get_channel_info_except
    /\ info_failed' = TRUE
    /\ info_pc' = "done"
    /\ completed' = Append(completed, "info")
    /\ UNCHANGED <<gather_pc, posts_pc, info_entity, posts_task, posts_failed, gathered>>
    /\ UNCHANGED outsideGather

\* get_channel_info: client.get_entity returns; the entity is no Channel, or
\* channel_info is built and, with a photo, the avatar download is awaited
InfoGetEntityReturns ==
    /\ info_pc = "get_entity"
    /\ \E e \in Entities :
          /\ info_entity' = e
          /\ IF e.type # "Channel"
             THEN /\ info_task' = Returns(None)
                  /\ info_failed' = TRUE
                  /\ info_pc' = "done"
             ELSE IF channel_info_of(e, gather_channel).raised
             THEN /\ info_task' = get_channel_info_except
                  /\ info_failed' = TRUE
                  /\ info_pc' = "done"
             ELSE IF e.photo
             THEN /\ info_pc' = "download_profile_photo"
                  /\ UNCHANGED <<info_task, info_failed>>
             ELSE /\ info_task' = Returns(channel_info_of(e, gather_channel).value)
                  /\ info_pc' = "done"
                  /\ UNCHANGED info_failed
    /\ completed' = IF info_pc' = "done" THEN Append(completed, "info") ELSE completed
    /\ UNCHANGED <<gather_pc, posts_pc, posts_task, posts_failed, gathered>>
    /\ UNCHANGED outsideGather

\* get_channel_info: client.download_profile_photo returns or raises; the inner
\* except clause stores avatar_path None
InfoDownloadPhoto ==
    /\ info_pc = "download_profile_photo"
    /\ \E downloaded \in BOOLEAN :
          info_task' =
              Returns([channel_info_of(info_entity, gather_channel).value
                          EXCEPT !.avatar_path =
                              IF downloaded THEN avatar_path_of(gather_channel)
                              ELSE None])
    /\ info_pc' = "done"
    /\ completed' = Append(completed, "info")
    /\ UNCHANGED <<gather_pc, posts_pc, info_entity, posts_task, info_failed,
                   posts_failed, gathered>>
    /\ UNCHANGED outsideGather

\* get_channel_posts: client.get_entity raises
PostsGetEntityRaises ==
    /\ posts_pc = "get_entity"
    /\ \E e \in ProviderErrors : posts_task' = get_channel_posts_except
    /\ posts_failed' = TRUE
    /\ posts_pc' = "done"
    /\ completed' = Append(completed, "posts")
    /\ UNCHANGED <<gather_pc, info_pc, info_entity, info_task, info_failed, gathered>>
    /\ UNCHANGED outsideGather

\* get_channel_posts: client.get_entity returns and get_messages is awaited
PostsGetEntityReturns ==
    /\ posts_pc = "get_entity"
    /\ posts_pc' = "get_messages"
    /\ UNCHANGED <<gather_pc, info_pc, info_entity, info_task, posts_task,
                   info_failed, posts_failed, completed, gathered>>
    /\ UNCHANGED outsideGather

\* get_channel_posts: client.get_messages raises
PostsGetMessagesRaises ==
    /\ posts_pc = "get_messages"
    /\ \E e \in ProviderErrors : posts_task' = get_channel_posts_except
    /\ posts_failed' = TRUE
    /\ posts_pc' = "done"
    /\ completed' = Append(completed, "posts")
    /\ UNCHANGED <<gather_pc, info_pc, info_entity, info_task, info_failed, gathered>>
    /\ UNCHANGED outsideGather

\* get_channel_posts: client.get_messages returns and the posts are built
PostsGetMessagesReturns ==
    /\ posts_pc = "get_messages"
    /\ \E ms \in MessageLists(MaxPosts) :
          posts_task' = Returns(posts_of(ms, gather_channel))
    /\ posts_pc' = "done"
    /\ completed' = Append(completed, "posts")
    /\ UNCHANGED <<gather_pc, info_pc, info_entity, info_task, info_failed,
                   posts_failed, gathered>>
    /\ UNCHANGED outsideGather

\* scrape_channel from the return of gather to its own return
GatherReturns ==
    /\ gather_pc = "gathering"
    /\ joined
    /\ gathered' = MtEntry(gathered_channel_info(info_task), gathered_posts(posts_task))
    /\ gather_pc' = "returned"
    /\ UNCHANGED <<info_pc, posts_pc, info_entity, info_task, posts_task,
                   info_failed, posts_failed, completed>>
    /\ UNCHANGED outsideGather

NextGather ==
    \/ InfoGetEntityRaises
    \/ InfoGetEntityReturns
    \/ InfoDownloadPhoto
    \/ PostsGetEntityRaises
    \/ PostsGetEntityReturns
    \/ PostsGetMessagesRaises
    \/ PostsGetMessagesReturns
    \/ GatherReturns

SpecGather == InitGather /\ [][NextGather]_vars

----------------------------------------------------------------------------
(* Properties of the acquisition run (SpecScrape) *)

\* a is a prefix of b
IsPrefix(a, b) == Len(a) <= Len(b) /\ SubSeq(b, 1, Len(a)) = a

\* the run is over
RunEnded == pc = "done"

\* the structured strategy produced no successfully scraped channel: it was
\* unavailable (its map is empty), it raised, or every channel of its map has
\* success false
StructuredYieldedNothing == strategyRaised \/ success_count(mtResults) = 0

\* the markup strategy produced no successfully scraped channel
MarkupYieldedNothing == success_count(htmlResults) = 0

\* the tags that name a strategy
StrategyTags(strategy) ==
    IF strategy = "structured" THEN {"structured"} ELSE {"html", "markup"}

\* entry e carries a provenance tag (field parser or source) naming the strategy
HasProvenanceTag(e, strategy) ==
    \/ ("parser" \in DOMAIN e /\ e.parser \in StrategyTags(strategy))
    \/ ("source" \in DOMAIN e /\ e.source \in StrategyTags(strategy))

\* the strategy whose map the run kept
ProducedBy == IF StructuredYieldedNothing THEN "markup" ELSE "structured"

\* C1: whenever a run of scrape_all ends Failed, channels_data.json holds what
\* it held before the run and was written at no point during the run.
C1_FailedLeavesFileUntouched ==
    (RunEnded /\ outcome = "Failed") => (dataFile = fileAtStart /\ fileWrites = 0)

\* C2 as stated: whenever the structured strategy yields nothing, the markup
\* strategy is attempted next and calls the parser's scrape_channel exactly once
\* per configured channel, in configured order, before the run ends.
C2_MarkupAlwaysInvoked ==
    (RunEnded /\ StructuredYieldedNothing) => (htmlEntered /\ htmlCalls = channels)

\* C2 as amended: whenever the structured strategy yields nothing,
\* scrape_with_html is called next; if the markup parser module is available it
\* calls scrape_channel exactly once per configured channel, in configured
\* order, before the run ends, and if it is not available it calls it for no
\* channel and the run ends Failed. The parser is called for a prefix of the
\* configured list at every moment, and never before the fallback is decided.
C2_MarkupInvokedWhenAvailable ==
    /\ IsPrefix(htmlCalls, channels)
    /\ htmlCalls # <<>> => (htmlEntered /\ StructuredYieldedNothing)
    /\ (RunEnded /\ StructuredYieldedNothing) =>
          /\ htmlEntered
          /\ html_enabled => htmlCalls = channels
          /\ ~html_enabled => (htmlCalls = <<>> /\ outcome = "Failed")

\* C2 witness: the structured strategy ran and no channel succeeded, and the
\* markup parser was then called for both channels.
C2_Witness ==
    /\ RunEnded
    /\ mtCalls = channels
    /\ StructuredYieldedNothing
    /\ html_enabled
    /\ htmlCalls = channels

\* C3: whenever the structured strategy returns at least one successful
\* channel, the document persisted and the channel map returned are the
\* structured strategy's map and the markup parser is never invoked.
C3_StructuredPreferred ==
    /\ ~StructuredYieldedNothing => (htmlCalls = <<>> /\ ~htmlEntered)
    /\ (RunEnded /\ ~StructuredYieldedNothing) =>
          /\ outcome = "Success"
          /\ dataFile = File(mtResults)
          /\ ChannelEntries(returned) = mtResults

\* C3 witness: the run ended with a structured map in which one channel
\* succeeded with no post and the other channel failed.
C3_Witness ==
    /\ RunEnded
    /\ mtResults = ("vanyashuvalov" :> MtEntry(MtInfo, 0))
                      @@ ("vanya_knopochkin" :> MtEntry(None, 0))
    /\ outcome = "Success"

\* C4: after a run that ends in Success, every channel entry of the persisted
\* document, successful or not, carries a provenance tag naming the strategy
\* that produced the run.
C4_EveryEntryTagged ==
    (RunEnded /\ outcome = "Success") =>
        \A k \in DOMAIN dataFile.doc \ {"_metadata"} :
            HasProvenanceTag(dataFile.doc[k], ProducedBy)

\* C5: after a run that ends in Success, the persisted document contains the
\* sibling key _metadata next to the channel entries.
C5_MetadataPersisted ==
    (RunEnded /\ outcome = "Success") => "_metadata" \in DOMAIN dataFile.doc

MissingOrPlaceholder(credential, placeholder) ==
    credential = "" \/ credential = placeholder

\* C17: when the API identifier or the API secret is missing or a placeholder,
\* the structured strategy is short-circuited before any network call: no
\* client session is created or started in the run, no channel is asked of the
\* structured client, and the run goes on to the markup strategy.
C17_NoClientWithoutCredentials ==
    (\/ MissingOrPlaceholder(env_api_id, "your_api_id_here")
     \/ MissingOrPlaceholder(env_api_hash, "your_api_hash_here"))
        => /\ ~clientCreated
           /\ mtCalls = <<>>
           /\ RunEnded => htmlEntered

----------------------------------------------------------------------------
(* Properties of the cache (SpecCache) *)

\* key was set and the time since its last set is below the time-to-live
Fresh(key) == lastSet[key].ref # NoneRef /\ now - lastSet[key].at < cache_ttl

\* what cache.get(key) returns in the current state
GetNow(key) == DataCache_get(_cache, _timestamps, key, now)

\* the step is a call cache.get(key)
IsGetStep(key) ==
    /\ lastOp'.op = "get"
    /\ lastOp'.key = key
    /\ UNCHANGED <<heap, now, lastSet>>

\* the step is a call cache.set(key, data)
IsSetStep(key) ==
    /\ lastOp'.op = "set"
    /\ lastOp'.key = key
    /\ UNCHANGED <<heap, now>>

C9_ReturnsStoredCopy ==
    \A k \in Keys :
        Fresh(k) => Deref(heap, GetNow(k).result) = lastSet[k].content

----------------------------------------------------------------------------
(* Properties of the ordering step (SpecPosts) *)

----------------------------------------------------------------------------
(* Properties of TelegramHTMLParser.scrape_channel (SpecPage) *)

\* the call has returned what it parsed from a page
ParsedPage ==
    /\ scrape_pc = "returned"
    /\ response.kind = "http"
    /\ response.status = 200
    /\ response.body # EmptyBody
    /\ response.body.loads

\* the ids of a list of posts, in order
PostIds(ps) == [i \in 1..Len(ps) |-> ps[i].id]

\* the page of the example: three posts dated T-1h, T-3h and T-2h (T is hour
\* 10), the second one without a text container
DemoWidgets ==
    <<[data_post |-> 1, text_elem |-> TextDiv(<<TextNode(<<"H", "i">>)>>),
       date |-> IsoDate(9, 0)],
      [data_post |-> 2, text_elem |-> None, date |-> IsoDate(7, 0)],
      [data_post |-> 3, text_elem |-> TextDiv(<<TextNode(<<"H", "i">>)>>),
       date |-> IsoDate(8, 0)]>>

\* C11: every post in the list parse_channel_posts returns has non-empty
\* text, a widget with no text container or an empty one being discarded; for
\* the page with posts dated T-1h, T-3h (no text) and T-2h the returned list
\* is [T-1h, T-2h].
C11_ReturnedPostsHaveText ==
    ParsedPage =>
        /\ \A i \in 1..Len(scraped.posts) : scraped.posts[i].text # <<>>
        /\ response.body.widgets = DemoWidgets => PostIds(scraped.posts) = <<1, 3>>

\* C15: when the page fetch fails (a status other than 200, a timeout, any
\* network error), fetch_channel_html returns None and scrape_channel returns
\* the null result: channel_info None, no posts, success false; no exception
\* escapes the call and nothing of the failed answer is in the result.
C15_FailedFetchGivesNullResult ==
    /\ scrape_pc # "raised"
    /\ (scrape_pc \in {"fetched", "returned"} /\ response \in FailedResponses) =>
           channel_html = None
    /\ (scrape_pc = "returned" /\ response \in FailedResponses) =>
           /\ scraped.channel_info = None
           /\ scraped.posts = <<>>
           /\ scraped.success = FALSE

\* C15 witness: the fetch timed out and scrape_channel has returned the null
\* result.
C15_Witness ==
    /\ scrape_pc = "returned"
    /\ response.kind = "timeout"
    /\ scraped = FetchFailedResult

\* the elements of a sequence
Range(xs) == {xs[i] : i \in 1..Len(xs)}

----------------------------------------------------------------------------
(* Properties of the counts (SpecCount) *)

\* a count text without its spaces, its thousands separators and the word
\* of its type
PlainCount(text) ==
    replace_char(replace_char(replace_char(text, " "), ","), "subscribers")

\* t is a decimal number followed by a K or M suffix, in either case
IsSuffixed(t) ==
    /\ t # <<>>
    /\ t[Len(t)] \in {"k", "K", "m", "M"}
    /\ float_literal(SubSeq(t, 1, Len(t) - 1)).ok
    /\ ~float_literal(SubSeq(t, 1, Len(t) - 1)).neg

\* the count the claim gives a text: the number times its suffix, else the
\* first run of digits, else 0
ClaimedCount(t) ==
    IF IsSuffixed(t)
    THEN LET f == float_literal(SubSeq(t, 1, Len(t) - 1))
             m == IF lower(t[Len(t)]) = "k" THEN 1000 ELSE 1000000
         IN  (DigitsValue(f.n) * m) \div Pow(10, f.d)
    ELSE DigitsValue(first_digits(t))

\* a non-negative Python int
IsNatural(v) == "int" \in DOMAIN v /\ v.int >= 0

\* C12: for a decimal number followed by a K or M suffix (either case,
\* spaces and thousands separators allowed) both count parsers return the
\* number times 1,000 or 1,000,000; without such a suffix they return the
\* first run of digits; for every other text 0; so "1K" gives 1000, "2.5M"
\* 2500000, "43" 43 and "garbage" 0.
C12_CountAsStated ==
    /\ (count_pc = "views_parsed" /\ ~Contains(counter_text, "subscribers")) =>
           views = PyInt(ClaimedCount(PlainCount(counter_text)))
    /\ count_pc = "subscribers_parsed" =>
           subscribers_count = PyInt(ClaimedCount(PlainCount(counter_text)))

\* C13: every view count and every subscriber count of a record is a
\* non-negative integer, and 0 when the value is unknown, for the count
\* parsers on every text and for the fields the structured client builds
\* from the provider's objects.
C13_CountsAreNaturals ==
    /\ count_pc \in {"views_parsed", "post_built"} => IsNatural(views)
    /\ count_pc \in {"subscribers_parsed", "info_built"} => IsNatural(subscribers_count)
    /\ (count_pc = "post_built" /\ provider.views \in {Absent, None}) =>
           views = PyInt(0)
    /\ (count_pc = "info_built" /\ provider.participants_count \in {Absent, None}) =>
           subscribers_count = PyInt(0)

\* C22: the view count the serverless handler reports for a post is the
\* suffix-aware count of the post's views text, the value
\* TelegramHTMLParser._parse_view_count gives the same text ("1K" gives 1000,
\* "2.5M" 2500000, digits their value, anything else 0).
C22_HandlerViewsAsParser ==
    count_pc = "handler_views" => views = PyInt(_parse_view_count(counter_text))

----------------------------------------------------------------------------
(* Properties of the text extraction (SpecText) *)

\* the innermost of the text containers nested in elem
RECURSIVE innermost(_)
innermost(elem) ==
    LET nested == find_text_div(elem.children)
    IN  IF nested = None THEN elem ELSE innermost(nested)

\* how deep the text containers of elem are nested, 0 without a container
RECURSIVE nesting(_)
nesting(elem) ==
    IF elem = None THEN 0 ELSE 1 + nesting(find_text_div(elem.children))

\* the text the claim gives a message container
ClaimedText(elem) ==
    IF elem = None THEN <<>> ELSE get_text(innermost(elem).children)

\* C14: for every message container the extracted post text is the text of
\* the innermost text container when containers of the same class are
\* nested, and the text of the single outer container when they are not; an
\* inner container holding the text inside an outer one that adds only
\* whitespace gives exactly that text.
C14_InnermostContainerText ==
    text_pc \in {"parsed", "handled"} => post_text = ClaimedText(text_elem)

----------------------------------------------------------------------------
(* Properties of the relative-time formatters (SpecDate) *)

\* a formatter has returned
Formatted == date_pc \in {"format_post_date", "format_date"}

\* the timestamp is present and denotes a point in time
HasTimestamp(s) ==
    /\ s \in {IsoString(d, h, m, sec, x) :
                 d \in 0..MaxDay, h \in DayHours, m \in Minutes, sec \in Seconds,
                 x \in Suffixes}
    /\ ~fromisoformat([s EXCEPT !.suffix = replace_Z(@)]).raised

\* the seconds elapsed at time t since the timestamp s
Elapsed(s, t) == t - fromisoformat([s EXCEPT !.suffix = replace_Z(@)]).value

\* the rendering of e elapsed seconds by whole days, hours and minutes
ClaimedRendering(e) ==
    IF e >= SecondsPerDay THEN Ago(e \div SecondsPerDay, "d")
    ELSE IF e >= SecondsPerHour THEN Ago(e \div SecondsPerHour, "h")
    ELSE IF e >= SecondsPerMinute THEN Ago(e \div SecondsPerMinute, "m")
    ELSE JustNow

\* C19: for every timestamp and every current time the formatter renders
\* "{d}d ago" when at least one whole day has elapsed, otherwise "{h}h ago"
\* when at least one whole hour has elapsed, otherwise "{m}m ago" when at least
\* one whole minute has elapsed, otherwise "Just now"; it returns "Unknown"
\* for a missing or unparseable timestamp, and it returns for every input.
C19_RelativeTimeAsStated ==
    Formatted =>
        formatted_date =
            IF HasTimestamp(date_str)
            THEN ClaimedRendering(Elapsed(date_str, clock))
            ELSE Unknown

----------------------------------------------------------------------------
(* Properties of the latest-post endpoint (SpecLatest) *)

\* an endpoint has answered
Answered == latest_pc \in {"get_channel_latest_post", "do_GET"}

\* the payload has the two parts the display layer renders
WellFormed(payload) == {"channel", "latest_post"} \subseteq DOMAIN payload

\* the payload is the mock/fallback payload
IsMock(payload) == "mock_data" \in DOMAIN payload

\* the file has no successful entry with a post for the channel u: it is
\* missing or unreadable, the channel is absent or failed, or it has no posts
NothingStored(f, u) ==
    \/ ~f.exists
    \/ f = Unreadable
    \/ u \notin DOMAIN f.doc
    \/ ~f.doc[u].success
    \/ f.doc[u].posts = <<>>

\* C18: for every state of the durable file (missing, unreadable, channel
\* absent, entry with success false, successful entry without posts,
\* successful entry with any stored post field values) the latest-post
\* endpoint answers with a well-formed payload holding `channel` and
\* `latest_post`, never an error; when the channel is missing, failed or has
\* no posts (and, for the serverless handler, the live page gave nothing),
\* the payload is the mock/fallback payload.
C18_AlwaysRenderablePayload ==
    Answered =>
        /\ WellFormed(latest_payload)
        /\ (/\ NothingStored(dataFile, request_username)
            /\ latest_pc = "do_GET" => live_data = None)
              => IsMock(latest_payload)

----------------------------------------------------------------------------
(* Properties of TelegramScraper.scrape_channel (SpecGather) *)

\* C16: the info fetch and the posts fetch run concurrently and both are
\* joined before the result is built; for every combination of their outcomes
\* and every order of completion, a failed sub-fetch yields None (info) or an
\* empty list (posts) for its part only, and the value the other sub-fetch
\* obtained is in the result unchanged.
C16_SubFetchFailureIsolated ==
    gather_pc = "returned" =>
        /\ info_pc = "done" /\ posts_pc = "done"
        /\ gathered.channel_info = IF info_failed THEN None ELSE info_task.value
        /\ gathered.posts = IF posts_failed THEN <<>> ELSE posts_task.value
        /\ ~info_failed => gathered.channel_info # None
        /\ gathered.success <=> ~info_failed

\* C16 witness: the posts fetch completed first with a post, the info fetch
\* failed after it, and the result holds no info and the post.
C16_Witness ==
    /\ gather_pc = "returned"
    /\ completed = <<"posts", "info">>
    /\ info_failed /\ ~posts_failed
    /\ gathered.channel_info = None
    /\ gathered.posts # <<>>
    /\ gathered.posts = posts_task.value

----------------------------------------------------------------------------
(* Properties of the persisted document (SpecScrape) *)

\* the map built by the strategy whose result scrape_all persists
ProducingMap == IF StructuredYieldedNothing THEN htmlResults ELSE mtResults

\* C28: after every run of scrape_all that ends in Success, the channel
\* entries of the persisted document are exactly the configured channels of
\* the strategy that produced it: one entry for each configured channel,
\* successful or not, and no entry for any other channel.
C28_EntriesAreConfiguredChannels ==
    (RunEnded /\ outcome = "Success") =>
        /\ DOMAIN ChannelEntries(dataFile.doc) = Range(channels)
        /\ DOMAIN ProducingMap = Range(channels)
        /\ \A k \in Range(channels) : dataFile.doc[k] = ProducingMap[k]

\* C28 witness: a run ended in Success and its persisted document holds the
\* entry of a channel that failed next to the entry of one that succeeded.
C28_Witness ==
    /\ RunEnded
    /\ outcome = "Success"
    /\ \E k \in DOMAIN dataFile.doc \ {"_metadata"} : ~dataFile.doc[k].success
    /\ \E k \in DOMAIN dataFile.doc \ {"_metadata"} : dataFile.doc[k].success

\* C29: strategies are never mixed within one persisted document: whenever
\* scrape_all has written the file, all its channel entries are the entries
\* of one strategy's map; a channel that failed under the structured strategy
\* while another channel succeeded under it is not fetched by the markup
\* parser, and its failed entry is what is persisted.
C29_StrategiesNeverMixed ==
    /\ (RunEnded /\ outcome = "Success") =>
          \/ ChannelEntries(dataFile.doc) = mtResults
          \/ ChannelEntries(dataFile.doc) = htmlResults
    /\ (~strategyRaised /\ success_count(mtResults) > 0) =>
          /\ htmlCalls = <<>>
          /\ RunEnded =>
                \A k \in DOMAIN mtResults :
                    ~mtResults[k].success => dataFile.doc[k] = mtResults[k]

\* C29 witness: the run ended with a structured map in which the second
\* channel failed and the first succeeded, the markup parser fetched nothing
\* and the failed structured entry is in the persisted document.
C29_Witness ==
    /\ RunEnded
    /\ outcome = "Success"
    /\ ~strategyRaised
    /\ mtResults["vanyashuvalov"].success
    /\ ~mtResults["vanya_knopochkin"].success
    /\ htmlCalls = <<>>
    /\ dataFile.doc["vanya_knopochkin"] = MtEntry(None, 0)

\* C24: every run of scrape_all terminates: it reaches Success or Failed
\* having attempted each strategy at most once and fetched each configured
\* channel at most once per strategy; a failed fetch is never retried.
C24_TerminatesWithoutRetry ==
    <>(/\ RunEnded
       /\ outcome \in {"Success", "Failed"}
       /\ fileWrites <= 2
       /\ IsPrefix(mtCalls, channels)
       /\ IsPrefix(htmlCalls, channels))

\* C24 witness: a run ended Failed after both strategies fetched every
\* configured channel once and the markup fetch of every channel failed.
C24_Witness ==
    /\ RunEnded
    /\ outcome = "Failed"
    /\ mtCalls = channels
    /\ htmlCalls = channels
    /\ \A k \in DOMAIN htmlResults : htmlResults[k] = HtmlFetchFailed

----------------------------------------------------------------------------
(* Properties of the daily scheduled job (SpecDaily) *)

\* C26: every scheduled run goes through the structured-then-markup fallback
\* of scrape_all: a scheduled run that has ended and in which the structured
\* client yielded no successful channel has attempted the markup parser.
C26_ScheduledRunFallsBack ==
    (RunEnded /\ StructuredYieldedNothing) => htmlEntered

----------------------------------------------------------------------------
(* Properties of the read path under file rewrites (SpecStale) *)

\* the time until which channels_data.json stayed in its j-th state
HeldUntil(j) == IF j < Len(file_log) THEN file_log[j + 1].at ELSE now

\* the entry for u of a state of the file, None without one
entry_of(f, u) == dict_get(load_channels_data(f), u, None)

\* C27: staleness of the read path is bounded by the time-to-live: every
\* record get_channel_data(u) returns equals the entry for u that
\* channels_data.json held at some moment no more than cache_ttl seconds
\* before the call, whatever rewrites and calls came before.
C27_StalenessBoundedByTtl ==
    \A u \in Usernames :
        LET r == get_channel_data(_cache, _timestamps, heap, dataFile, u, now)
        IN  r # None =>
               \E j \in 1..Len(file_log) :
                  /\ now - HeldUntil(j) <= cache_ttl
                  /\ entry_of(file_log[j].file, u) = r

\* C27 witness: a call has cached an entry, the file was rewritten with
\* another entry for the channel, and one second before the entry expires
\* get_channel_data still returns the cached record.
C27_Witness ==
    /\ lastOp.op = "get_channel_data"
    /\ Len(file_log) > 1
    /\ \E u \in Usernames :
          /\ cache_key(u) \in DOMAIN _timestamps
          /\ now - _timestamps[cache_key(u)] = cache_ttl - 1
          /\ get_channel_data(_cache, _timestamps, heap, dataFile, u, now) # None
          /\ get_channel_data(_cache, _timestamps, heap, dataFile, u, now)
                 # entry_of(dataFile, u)

----------------------------------------------------------------------------
(* Properties of the channel loop (SpecDelay) *)

----------------------------------------------------------------------------
(* Properties of the channel description (SpecDesc) *)

\* the description the parser that ran extracts from an element
DescriptionOf(cs) ==
    IF desc_pc = "parsed" THEN parser_description(cs) ELSE handler_description(cs)

\* C25: in the description extracted by both markup parsers, every embedded
\* line break is converted to a space before the remaining tags are
\* stripped: the text before a line break and the text after it are
\* separated by a space in the result.
C25_LineBreakBecomesSpace ==
    (desc_pc \in {"parsed", "handled"} /\ desc_elem # None) =>
        \A i \in 1..Len(desc_elem.children) :
            LET cs == desc_elem.children
                before == DescriptionOf(DescElem(SubSeq(cs, 1, i - 1)))
                after == DescriptionOf(DescElem(SubSeq(cs, i + 1, Len(cs))))
            IN  (cs[i] = Br /\ before # <<>> /\ after # <<>>) =>
                    description = before \o <<" ">> \o after

----------------------------------------------------------------------------
(* Properties of the handler's post selection (SpecBlocks) *)

\* the posts of the page that have text and a timestamp
Eligible == {i \in 1..Len(page_blocks) :
                page_blocks[i].text # <<>> /\ HasDate(page_blocks[i])}

\* C21: the latest_post of parse_telegram_html is the post with the greatest
\* publish timestamp among all posts of the fetched page that have text and
\* a timestamp, whatever their position on the page and however many message
\* containers the page holds.
C21_LatestIsNewestOnPage ==
    blocks_pc = "parsed" =>
        /\ handler_latest = None <=> Eligible = {}
        /\ \A i \in Eligible :
              /\ handler_latest # None
              /\ Instant(page_blocks[i].date) <= Instant(handler_latest.date)

----------------------------------------------------------------------------
(* Properties of the responses of do_GET (SpecSend) *)

\* the source the precedence of do_GET selects for the request
SelectedSource ==
    IF live_data # None THEN "live"
    ELSE IF static_usable(dataFile, request_username, RequestTime) THEN "static"
    ELSE "mock"

\* C30: for every GET the handler sends exactly one response, chosen in the
\* precedence live parse result, static entry (successful and with posts),
\* mock payload; a source that fails, also while its response is being sent,
\* never leads to a second response being sent for the request.
C30_ExactlyOneResponse ==
    get_pc \in {"done", "raised"} =>
        /\ Len(sent) = 1
        /\ sent[1].source = SelectedSource

=============================================================================
